---------------------------- MODULE Spec2Model ----------------------------
(***************************************************************************)
(* A model of acd2lr-core: locating an XMP packet in a host file           *)
(* (file.rs), splitting it into header / body / footer (xpacket.rs),       *)
(* rewriting its markup events under a rule set (xmp.rs, xmp/rule.rs) and  *)
(* fitting the result back into the packet (container.rs).                 *)
(*                                                                         *)
(* Bytes are their ASCII codes, byte strings are sequences of codes.       *)
(* Offsets are the 0-based offsets of the Rust code; Slice(s, a, b) is the *)
(* Rust slice s[a..b].                                                     *)
(***************************************************************************)
EXTENDS Integers, Sequences, FiniteSets, TLC

VARIABLES
    fileBytes,  \* contents of the host file (or the bytes handed to the splitter)
    pos,        \* position of the stream the scanner reads from
    pc,         \* position of the running operation
    needle,     \* find_needle: the needle being searched
    bufLen,     \* find_needle: buffer.len(), the size of the read window
    scanFrom,   \* find_needle: position of the stream when it was called
    scanRes,    \* find_needle: its return value
    caller,     \* who called find_needle: "user" or a stage of open
    start,      \* open: offset of the begin marker
    span,       \* XPacketFile.span: the located packet range, or NoSpan
    packet,     \* the splitter's result: XPacket::try_from(fileBytes)
    kind,       \* ContainerData: "Xmp", "XPacket", or "none" before open
    events,     \* prepare_write: the events to serialize
    prepared,   \* prepare_write: its return value
    wbuf,       \* write: the buffer handed to it
    wres,       \* write: its return value
    origBytes,  \* contents of the host file before any operation
    doc,        \* XmpData.events: the events of the parsed document
    open,       \* the reader's stack of open elements while parsing
    ruleset,    \* the rules handed to write_events
    out1,       \* the result of write_events on doc
    out2,       \* the result of write_events on the events of out1
    disk,       \* the file of a MetadataFile: its contents and modification time
    backupFile, \* the backup file of the MetadataFile: whether it exists, its contents
    last_check, \* MetadataFile.last_check, or None
    state,      \* MetadataFile.state
    ap,         \* the locals of the check_rewrite or apply that is running
    wrote,      \* the last Container::write of an apply, or NoWrite
    files,         \* State.files: the slots of the added files
    file_events,   \* State.file_events: the events not yet drained
    pending_tasks, \* State.pending_tasks: the queue of background tasks
    rx,            \* the requests sent and not yet received by Service::run
    tx,            \* the ServiceHandle: whether it holds the sender, the requests sent
    task,          \* the task the poll_bg future of this select is running
    ui,            \* the messages sent to the UI and not yet handled
    file_list,     \* the list the UI shows
    ran,           \* what the task did that the last step of the service ended
    tag_stack,     \* from_acdsee: the categories entered and not left
    tag_set        \* from_acdsee: the paths inserted

scanVars == <<fileBytes, pos, pc, needle, bufLen, scanFrom, scanRes, caller, start, span>>

contVars == <<kind, events, prepared, wbuf, wres, origBytes>>

xmpVars == <<doc, open, ruleset, out1, out2>>

svcVars == <<disk, backupFile, last_check, state, ap, wrote>>

loopVars == <<files, file_events, pending_tasks, rx, tx, task, ui, file_list, ran>>

tagVars == <<tag_stack, tag_set>>

vars == <<scanVars, packet, contVars, xmpVars, svcVars, loopVars, tagVars>>

-----------------------------------------------------------------------------
(* The state of the parts that are not running *)

\* no BackgroundTask; file is the MetadataFile of a task
NoTask ==
    [kind |-> "none", index |-> 0,
     file |-> [path |-> "", last_check |-> -1,
               state |-> [tag |-> "Init", bytes |-> <<>>]]]

\* the last step of the service was not the end of a task; of a task that
\* ran to its end: its kind and index, the branch
\* of update_file! it took, the state get_apply_state matched (eff) and
\* whether it called Container::write
NoRun == [kind |-> "none", index |-> 0, branch |-> "none",
          eff |-> [tag |-> "none", bytes |-> <<>>], wrote |-> FALSE]

\* no Service is running
NoLoop ==
    /\ files = <<>>
    /\ file_events = <<>>
    /\ pending_tasks = <<>>
    /\ rx = <<>>
    /\ tx = [open |-> FALSE, sent |-> 0]
    /\ task = NoTask
    /\ ui = <<>>
    /\ file_list = <<>>
    /\ ran = NoRun

\* no from_acdsee is running
NoTags ==
    /\ tag_stack = <<>>
    /\ tag_set = {}

-----------------------------------------------------------------------------
(* Byte strings *)

Slice(s, a, b) == SubSeq(s, a + 1, b)

Min(a, b) == IF a < b THEN a ELSE b

StartsWith(s, prefix) ==
    /\ Len(s) >= Len(prefix)
    /\ Slice(s, 0, Len(prefix)) = prefix

EndsWith(s, suffix) ==
    /\ Len(s) >= Len(suffix)
    /\ Slice(s, Len(s) - Len(suffix), Len(s)) = suffix

\* whether n occurs in s at offset o
OccursAt(s, n, o) ==
    /\ o >= 0
    /\ o + Len(n) <= Len(s)
    /\ Slice(s, o, o + Len(n)) = n

\* the offsets at which n occurs in s
Occurrences(s, n) == {o \in 0..Len(s) : OccursAt(s, n, o)}

SetMin(S) == CHOOSE x \in S : \A y \in S : x <= y

\* Option<usize>::None
None == -1

\* memchr::memchr: the offset of the first byte b of s
memchr(b, s) ==
    LET hits == {i \in 1..Len(s) : s[i] = b}
    IN  IF hits = {} THEN None ELSE SetMin(hits) - 1

\* memchr::memmem::find: the offset of the first occurrence of n in s
memmem_find(s, n) ==
    LET occ == Occurrences(s, n)
    IN  IF occ = {} THEN None ELSE SetMin(occ)

RECURSIVE ConcatsUpTo(_, _)
\* the concatenations of at most k fragments of F
ConcatsUpTo(F, k) ==
    IF k = 0 THEN {<<>>}
    ELSE LET S == ConcatsUpTo(F, k - 1)
         IN  S \cup {s \o f : s \in S, f \in F}

-----------------------------------------------------------------------------
(* file.rs: the markers of XPacketFile::open *)

\* b"<?xpacket begin"
XPACKET_BEGIN == <<60, 63, 120, 112, 97, 99, 107, 101, 116, 32, 98, 101, 103, 105, 110>>

\* b"<?xpacket end"
XPACKET_END == <<60, 63, 120, 112, 97, 99, 107, 101, 116, 32, 101, 110, 100>>

\* b"?>"
BOUND_MARKER == <<63, 62>>

NoSpan == [some |-> FALSE, start |-> 0, end |-> 0]

SomeSpan(s, e) == [some |-> TRUE, start |-> s, end |-> e]

NoRes == [done |-> FALSE, found |-> FALSE, idx |-> 0]

-----------------------------------------------------------------------------
(* file.rs: XPacketFile::find_needle, one iteration of its loop per step *)

\* find_needle as a search over disjoint chunks: the stream is never rewound
\* after a read that did not return
FindNeedleReadNoRewind(buffer, after) ==
    LET idx == memchr(needle[1], buffer)
        left_in_haystack == Len(buffer) - idx
    IN  IF /\ idx # None
           /\ left_in_haystack >= Len(needle)
           /\ Slice(buffer, idx, idx + Len(needle)) = needle
        THEN [ret |-> TRUE, found |-> TRUE,
              idx |-> after - left_in_haystack,
              pos |-> after - left_in_haystack]
        ELSE [ret |-> FALSE, found |-> FALSE, idx |-> 0, pos |-> after]

\* find_needle in which a mismatch at idx seeks back over all that was left
\* in the buffer from idx, the candidate byte included
FindNeedleReadRewindAll(buffer, after) ==
    LET idx == memchr(needle[1], buffer)
        left_in_haystack == Len(buffer) - idx
    IN  IF idx # None
        THEN IF /\ left_in_haystack >= Len(needle)
                /\ Slice(buffer, idx, idx + Len(needle)) = needle
             THEN [ret |-> TRUE, found |-> TRUE,
                   idx |-> after - left_in_haystack,
                   pos |-> after - left_in_haystack]
             ELSE [ret |-> FALSE, found |-> FALSE, idx |-> 0,
                   pos |-> after - left_in_haystack]
        ELSE [ret |-> FALSE, found |-> FALSE, idx |-> 0, pos |-> after]

\* the iteration's outcome when read_exact filled the buffer; after is the
\* position of the stream once the buffer has been read
FindNeedleRead(buffer, after) ==
    LET idx == memchr(needle[1], buffer)
        left_in_haystack == Len(buffer) - idx
    IN  IF idx # None
        THEN IF left_in_haystack >= Len(needle)
             THEN IF Slice(buffer, idx, idx + Len(needle)) = needle
                  THEN \* found: seek back to the needle and return it
                       [ret |-> TRUE, found |-> TRUE,
                        idx |-> after - left_in_haystack,
                        pos |-> after - left_in_haystack]
                  ELSE \* not at idx: seek back and repeat the read
                       [ret |-> FALSE, found |-> FALSE, idx |-> 0,
                        pos |-> after - (left_in_haystack - 1)]
             ELSE \* not enough left for the needle
                  [ret |-> FALSE, found |-> FALSE, idx |-> 0,
                   pos |-> after - left_in_haystack]
        ELSE \* start byte not in the buffer: skip it
             [ret |-> FALSE, found |-> FALSE, idx |-> 0, pos |-> after]

\* one iteration of the loop
FindNeedleIter ==
    IF pos + bufLen <= Len(fileBytes)
    THEN FindNeedleRead(Slice(fileBytes, pos, pos + bufLen), pos + bufLen)
    ELSE \* read_exact failed: the rest of the stream is consumed
         [ret |-> TRUE, found |-> FALSE, idx |-> 0, pos |-> Len(fileBytes)]

FindNeedleStep ==
    /\ pc = "scan"
    /\ LET it == FindNeedleIter
       IN  /\ pos' = it.pos
           /\ pc' = IF it.ret THEN "ret" ELSE "scan"
           /\ scanRes' = IF it.ret
                         THEN [done |-> TRUE, found |-> it.found, idx |-> it.idx]
                         ELSE scanRes
    /\ UNCHANGED <<fileBytes, needle, bufLen, scanFrom, caller, start, span>>

\* a call of find_needle(buf, n, buffer[..w]) with the stream at p: the
\* signature takes the needle and the read window as separate slices
CallFindNeedleWindow(n, w, p) ==
    /\ pc = "idle"
    /\ pc' = "scan"
    /\ caller' = "user"
    /\ needle' = n
    /\ bufLen' = w
    /\ pos' = p
    /\ scanFrom' = p
    /\ scanRes' = NoRes
    /\ UNCHANGED <<fileBytes, start, span>>

\* a call of find_needle(buf, n, buffer[..n.len()]) with the stream at p
CallFindNeedle(n, p) ==
    /\ pc = "idle"
    /\ pc' = "scan"
    /\ caller' = "user"
    /\ needle' = n
    /\ bufLen' = Len(n)
    /\ pos' = p
    /\ scanFrom' = p
    /\ scanRes' = NoRes
    /\ UNCHANGED <<fileBytes, start, span>>

-----------------------------------------------------------------------------
(* file.rs: XPacketFile::open *)

\* seek to the start, then look for the begin marker
OpenBegin ==
    /\ pc = "idle"
    /\ pc' = "scan"
    /\ caller' = "open_begin"
    /\ needle' = XPACKET_BEGIN
    /\ bufLen' = Len(XPACKET_BEGIN)
    /\ pos' = 0
    /\ scanFrom' = 0
    /\ scanRes' = NoRes
    /\ UNCHANGED <<fileBytes, start, span>>

\* the begin marker was searched: no packet, or look for the end marker
OpenEnd ==
    /\ pc = "ret"
    /\ caller = "open_begin"
    /\ IF scanRes.found
       THEN /\ start' = scanRes.idx
            /\ pc' = "scan"
            /\ caller' = "open_end"
            /\ needle' = XPACKET_END
            /\ bufLen' = Len(XPACKET_END)
            /\ scanFrom' = pos
            /\ scanRes' = NoRes
            /\ UNCHANGED span
       ELSE /\ span' = NoSpan
            /\ pc' = "opened"
            /\ UNCHANGED <<start, caller, needle, bufLen, scanFrom, scanRes>>
    /\ UNCHANGED <<fileBytes, pos>>

\* the end marker was searched: no packet, or look for the closing ?>
OpenBound ==
    /\ pc = "ret"
    /\ caller = "open_end"
    /\ IF scanRes.found
       THEN /\ pc' = "scan"
            /\ caller' = "open_bound"
            /\ needle' = BOUND_MARKER
            /\ bufLen' = Len(BOUND_MARKER)
            /\ scanFrom' = pos
            /\ scanRes' = NoRes
            /\ UNCHANGED span
       ELSE /\ span' = NoSpan
            /\ pc' = "opened"
            /\ UNCHANGED <<caller, needle, bufLen, scanFrom, scanRes>>
    /\ UNCHANGED <<fileBytes, pos, start>>

\* open returning the offset of the closing ?> as the end of the range
OpenDoneNoMarkerLen ==
    /\ pc = "ret"
    /\ caller = "open_bound"
    /\ span' = IF scanRes.found THEN SomeSpan(start, scanRes.idx) ELSE NoSpan
    /\ pc' = "opened"
    /\ UNCHANGED <<fileBytes, pos, needle, bufLen, scanFrom, scanRes, caller, start>>

\* the closing ?> was searched: no packet, or the range [start, end)
OpenDone ==
    /\ pc = "ret"
    /\ caller = "open_bound"
    /\ span' = IF scanRes.found
               THEN SomeSpan(start, scanRes.idx + Len(BOUND_MARKER))
               ELSE NoSpan
    /\ pc' = "opened"
    /\ UNCHANGED <<fileBytes, pos, needle, bufLen, scanFrom, scanRes, caller, start>>

-----------------------------------------------------------------------------
(* xpacket.rs: the packet splitter *)

\* b"<?xpacket begin="
XPACKET_HEADER == XPACKET_BEGIN \o <<61>>

\* b"<?xpacket end=\"w\"?>"
FOOTER_DQ == XPACKET_END \o <<61, 34, 119, 34, 63, 62>>

\* b"<?xpacket end='w'?>"
FOOTER_SQ == XPACKET_END \o <<61, 39, 119, 39, 63, 62>>

FOOTER_MARKERS == <<FOOTER_DQ, FOOTER_SQ>>

\* value.strip_suffix(b"\n").unwrap_or(value)
StripNewline(value) ==
    IF Len(value) > 0 /\ value[Len(value)] = 10
    THEN Slice(value, 0, Len(value) - 1)
    ELSE value

OffsetsOk(bs, be) == [tag |-> "ok", err |-> "", body_start |-> bs, body_end |-> be]

OffsetsErr(e) == [tag |-> "err", err |-> e, body_start |-> 0, body_end |-> 0]

\* FOOTER_MARKERS.iter().find_map(|needle| memmem::find(value, needle))
FindFooter(value) ==
    LET found == {i \in 1..Len(FOOTER_MARKERS) :
                      memmem_find(value, FOOTER_MARKERS[i]) # None}
    IN  IF found = {} THEN None
        ELSE memmem_find(value, FOOTER_MARKERS[SetMin(found)])

\* a footer search that takes the lowest offset of any marker
FindFooterLowest(value) ==
    LET occ == UNION {Occurrences(value, FOOTER_MARKERS[i]) :
                          i \in 1..Len(FOOTER_MARKERS)}
    IN  IF occ = {} THEN None ELSE SetMin(occ)

\* get_offsets with the footer checked before the header
get_offsets_footer_first(input) ==
    LET value == StripNewline(input)
        body_end == FindFooter(value)
        gt == memchr(62, value)
    IN  IF body_end = None
        THEN OffsetsErr("MissingFooter")
        ELSE IF ~StartsWith(value, XPACKET_HEADER)
        THEN OffsetsErr("MissingHeader")
        ELSE IF gt = None
        THEN OffsetsErr("MissingHeaderBoundary")
        ELSE OffsetsOk(gt + 1, body_end)

get_offsets(input) ==
    LET value == StripNewline(input)
        body_end == FindFooter(value)
        gt == memchr(62, value)
    IN  IF ~StartsWith(value, XPACKET_HEADER)
        THEN OffsetsErr("MissingHeader")
        ELSE IF body_end = None
        THEN OffsetsErr("MissingFooter")
        ELSE IF gt = None
        THEN OffsetsErr("MissingHeaderBoundary")
        ELSE OffsetsOk(gt + 1, body_end)

NoPacket == [tag |-> "none", err |-> "", header |-> <<>>, body |-> <<>>, footer |-> <<>>]

PacketErr(e) == [tag |-> "err", err |-> e, header |-> <<>>, body |-> <<>>, footer |-> <<>>]

\* body_end - body_start underflows (a panic where overflow is checked) and
\* split_at then panics on a wrapped length: no build returns
PacketPanic == [tag |-> "panic", err |-> "", header |-> <<>>, body |-> <<>>, footer |-> <<>>]

\* a splitter that ends the header after the begin marker literal
XPacketTryFromFixedHeader(value) ==
    LET off == get_offsets(value)
    IN  IF off.tag = "err" THEN PacketErr(off.err)
        ELSE IF off.body_end < Len(XPACKET_HEADER) THEN PacketPanic
        ELSE [tag |-> "ok", err |-> "",
              header |-> Slice(value, 0, Len(XPACKET_HEADER)),
              body |-> Slice(value, Len(XPACKET_HEADER), off.body_end),
              footer |-> Slice(value, off.body_end, Len(value))]

\* TryFrom<&[u8]> for XPacket, TryFrom<&mut [u8]> for XPacketMut: the three
\* spans of value
XPacketTryFrom(value) ==
    LET off == get_offsets(value)
    IN  IF off.tag = "err" THEN PacketErr(off.err)
        ELSE IF off.body_end < off.body_start THEN PacketPanic
        ELSE [tag |-> "ok", err |-> "",
              header |-> Slice(value, 0, off.body_start),
              body |-> Slice(value, off.body_start, off.body_end),
              footer |-> Slice(value, off.body_end, Len(value))]

\* XPacket::try_from(&bytes[..])
Split ==
    /\ pc = "idle"
    /\ packet' = XPacketTryFrom(fileBytes)
    /\ pc' = "split"
    /\ UNCHANGED <<fileBytes, pos, needle, bufLen, scanFrom, scanRes, caller, start, span>>
    /\ UNCHANGED contVars
    /\ UNCHANGED <<xmpVars, svcVars, loopVars, tagVars>>

-----------------------------------------------------------------------------
(* Markup events (xml::reader::XmlEvent) *)

\* Option<String>::None of a name's namespace or prefix
NoStr == ""

QName(ns, local, prefix) == [ns |-> ns, local |-> local, prefix |-> prefix]

NoName == QName(NoStr, "", NoStr)

Attr(name, value) == [name |-> name, value |-> value]

StartDocument ==
    [type |-> "StartDocument", name |-> NoName, attributes |-> <<>>,
     namespace |-> {}, text |-> ""]

EndDocument ==
    [type |-> "EndDocument", name |-> NoName, attributes |-> <<>>,
     namespace |-> {}, text |-> ""]

\* namespace: the bindings <<prefix, uri>> of xml::namespace::Namespace
StartElement(name, attributes, namespace) ==
    [type |-> "StartElement", name |-> name, attributes |-> attributes,
     namespace |-> namespace, text |-> ""]

EndElement(name) ==
    [type |-> "EndElement", name |-> name, attributes |-> <<>>,
     namespace |-> {}, text |-> ""]

Characters(text) ==
    [type |-> "Characters", name |-> NoName, attributes |-> <<>>,
     namespace |-> {}, text |-> text]

-----------------------------------------------------------------------------
(* container.rs: WriterExt::write_all on an xml::writer::EventWriter *)

\* the UTF-8 bytes of the strings of the events that are serialized
Utf8(str) ==
    CASE str = "a" -> <<97>>
      [] str = "b" -> <<98>>
      [] str = "t" -> <<116>>
      [] OTHER -> <<>>

RECURSIVE Spaces(_)
Spaces(n) == IF n <= 0 THEN <<>> ELSE <<32>> \o Spaces(n - 1)

\* Name::repr_display
NameBytes(name) ==
    IF name.prefix = NoStr
    THEN Utf8(name.local)
    ELSE Utf8(name.prefix) \o <<58>> \o Utf8(name.local)

RECURSIVE AttributeBytes(_)
\* ` name="value"` for each attribute
AttributeBytes(attributes) ==
    IF attributes = <<>> THEN <<>>
    ELSE <<32>> \o NameBytes(attributes[1].name) \o <<61, 34>>
             \o Utf8(attributes[1].value) \o <<34>>
             \o AttributeBytes(Tail(attributes))

\* the emitter before the first event: nothing written, no open element
EmitterNew ==
    [ok |-> TRUE, out |-> <<>>, started |-> FALSE, indent_level |-> 0,
     indent_stack |-> <<"WroteNothing">>, just_wrote_start_element |-> FALSE,
     element_names |-> <<>>]

SetTop(stack, flag) == [stack EXCEPT ![Len(stack)] = flag]

\* Emitter::after_end_element
AfterEndElement(st) ==
    LET popped == IF st.indent_level > 0
                  THEN [st EXCEPT !.indent_level = @ - 1,
                                  !.indent_stack = SubSeq(@, 1, Len(@) - 1)]
                  ELSE st
    IN  [popped EXCEPT !.indent_stack = SetTop(@, "WroteMarkup")]

\* EventWriter::write of one event; indent is EmitterConfig::perform_indent,
\* the indent string is one space, no document declaration is written. The
\* events serialized here bind no namespace prefix, and no xmlns attribute
\* is written.
EmitEvent(st, evt, indent) ==
    LET top == st.indent_stack[Len(st.indent_stack)]
        close == IF st.just_wrote_start_element THEN <<62>> ELSE <<>>
    IN  CASE evt.type = "StartDocument" ->
                 IF st.started THEN [st EXCEPT !.ok = FALSE]
                 ELSE [st EXCEPT !.started = TRUE]
          [] evt.type = "EndDocument" -> st
          [] evt.type = "StartElement" ->
                 LET newline == /\ indent
                                /\ top # "WroteText"
                                /\ (st.indent_level > 0 \/ top = "WroteMarkup")
                     lead == IF newline THEN <<10>> \o Spaces(st.indent_level)
                             ELSE <<>>
                     stack == IF newline /\ st.indent_level > 0
                              THEN SetTop(st.indent_stack, "WroteMarkup")
                              ELSE st.indent_stack
                 IN  [st EXCEPT
                        !.started = TRUE,
                        !.out = @ \o close \o lead \o <<60>> \o NameBytes(evt.name)
                                  \o AttributeBytes(evt.attributes),
                        !.just_wrote_start_element = TRUE,
                        !.indent_stack = Append(stack, "WroteMarkup"),
                        !.indent_level = @ + 1,
                        !.element_names = Append(@, evt.name)]
          [] evt.type = "EndElement" ->
                 IF \/ st.element_names = <<>>
                    \/ st.element_names[Len(st.element_names)] # evt.name
                 THEN [st EXCEPT !.ok = FALSE]
                 ELSE LET names == SubSeq(st.element_names, 1, Len(st.element_names) - 1)
                          newline == /\ indent
                                     /\ st.indent_level > 0
                                     /\ top = "WroteMarkup"
                          lead == IF newline
                                  THEN <<10>> \o Spaces(st.indent_level - 1)
                                  ELSE <<>>
                      IN  IF st.just_wrote_start_element
                          THEN AfterEndElement(
                                   [st EXCEPT !.out = @ \o <<32, 47, 62>>,
                                              !.just_wrote_start_element = FALSE,
                                              !.element_names = names])
                          ELSE AfterEndElement(
                                   [st EXCEPT !.out = @ \o lead \o <<60, 47>>
                                                        \o NameBytes(evt.name) \o <<62>>,
                                              !.element_names = names])
          [] evt.type = "Characters" ->
                 [st EXCEPT !.started = TRUE,
                            !.out = @ \o close \o Utf8(evt.text),
                            !.just_wrote_start_element = FALSE,
                            !.indent_stack = SetTop(@, "WroteText")]

RECURSIVE EmitAll(_, _, _)
\* WriterExt::write_all: stops at the first event the writer rejects
EmitAll(st, evts, indent) ==
    IF evts = <<>> \/ ~st.ok THEN st
    ELSE EmitAll(EmitEvent(st, Head(evts), indent), Tail(evts), indent)

\* events_to_vec: [ok, out], out the serialization of the events
events_to_vec(evts, indent) ==
    LET st == EmitAll(EmitterNew, evts, indent)
    IN  [ok |-> st.ok, out |-> st.out]

-----------------------------------------------------------------------------
(* container.rs: Container over a host file *)

\* b"<x:xmp"
XMP_START == <<60, 120, 58, 120, 109, 112>>

\* start_buf: [u8; 16]
START_BUF_LEN == 16

\* the two configurations with the compact one tried first
emitter_configs_compact_first == <<FALSE, TRUE>>

\* perform_indent of the two emitter_configs of XPacketData::prepare_write
emitter_configs == <<TRUE, FALSE>>

NoPrep == [tag |-> "none", err |-> "", bytes |-> <<>>]

PrepOk(bytes) == [tag |-> "ok", err |-> "", bytes |-> bytes]

PrepErr(e) == [tag |-> "err", err |-> e, bytes |-> <<>>]

PrepPanic == [tag |-> "panic", err |-> "", bytes |-> <<>>]

\* File::write_all(data) with the cursor at p: a gap past the end reads as zeros
WriteAt(bytes, p, data) ==
    LET n == IF p + Len(data) > Len(bytes) THEN p + Len(data) ELSE Len(bytes)
    IN  [i \in 1..n |->
            IF i > p /\ i <= p + Len(data) THEN data[i - p]
            ELSE IF i <= Len(bytes) THEN bytes[i]
            ELSE 0]

\* XPacketFile::read_packet_bytes
read_packet_bytes(bytes, sp) ==
    IF sp.some THEN Slice(bytes, sp.start, sp.end) ELSE None

\* the body written with the serialization copied to its start
FillBodyNoLeadingSeparator(n, out) ==
    [i \in 1..n |->
        IF i <= Len(out) THEN out[i]
        ELSE IF i = n THEN 10
        ELSE 32]

\* body.fill(b' '); body[0] = b'\n'; *body.last_mut() = b'\n';
\* body[1..(1 + out.len())].copy_from_slice(&out)
FillBody(n, out) ==
    [i \in 1..n |->
        IF i >= 2 /\ i <= 1 + Len(out) THEN out[i - 1]
        ELSE IF i = 1 \/ i = n THEN 10
        ELSE 32]

\* out.len() <= xpacket.body.len() - 2 where the subtraction wrapped: the
\* limit is then above every length
FitsBody(outLen, bodyLen) ==
    IF bodyLen >= 2 THEN outLen <= bodyLen - 2 ELSE TRUE

RECURSIVE TryConfigs(_, _, _, _)
\* the loop over emitter_configs, from the i-th; overflow_checks tells
\* whether the build panics on integer overflow
TryConfigs(xp, evts, i, overflow_checks) ==
    IF i > Len(emitter_configs) THEN PrepErr("NotEnoughSpace")
    ELSE LET r == events_to_vec(evts, emitter_configs[i])
             n == Len(xp.body)
         IN  IF ~r.ok THEN PrepErr("Emitter")
             ELSE IF n < 2 /\ overflow_checks
             THEN PrepPanic  \* attempt to subtract with overflow
             ELSE IF FitsBody(Len(r.out), n)
             THEN IF n = 0 \/ 1 + Len(r.out) > n
                  THEN PrepPanic  \* body[0], or body[1..(1 + out.len())]
                  ELSE PrepOk(xp.header \o FillBody(n, r.out) \o xp.footer)
             ELSE TryConfigs(xp, evts, i + 1, overflow_checks)

\* XPacketData::prepare_write
XPacketPrepareWrite(bytes, sp, evts, overflow_checks) ==
    IF ~sp.some THEN PrepErr("MissingXPacket")
    ELSE LET xp == XPacketTryFrom(read_packet_bytes(bytes, sp))
         IN  IF xp.tag = "err" THEN PrepErr(xp.err)
             ELSE IF xp.tag = "panic" THEN PrepPanic
             ELSE TryConfigs(xp, evts, 1, overflow_checks)

\* XmpData::prepare_write (the standalone file)
XmpPrepareWrite(evts) ==
    LET r == events_to_vec(evts, TRUE)
    IN  IF r.ok THEN PrepOk(r.out) ELSE PrepErr("Emitter")

\* write_packet_bytes writing at the start of the file
write_packet_bytes_at_start(bytes, sp, new_bytes) ==
    IF sp.some
    THEN IF sp.end - sp.start # Len(new_bytes)
         THEN [res |-> "WrongPacketSize", bytes |-> bytes, pos |-> None]
         ELSE [res |-> "ok", bytes |-> WriteAt(bytes, 0, new_bytes),
               pos |-> Len(new_bytes)]
    ELSE [res |-> "NoPacket", bytes |-> bytes, pos |-> None]

\* XPacketFile::write_packet_bytes: the result, the file and the cursor
\* (None: not moved)
write_packet_bytes(bytes, sp, new_bytes) ==
    IF sp.some
    THEN IF sp.end - sp.start # Len(new_bytes)
         THEN [res |-> "WrongPacketSize", bytes |-> bytes, pos |-> None]
         ELSE [res |-> "ok", bytes |-> WriteAt(bytes, sp.start, new_bytes),
               pos |-> sp.start + Len(new_bytes)]
    ELSE [res |-> "NoPacket", bytes |-> bytes, pos |-> None]

\* Container::open: read the first 16 bytes, then tell a .xmp file from a
\* file that may hold a packet, which XPacketFile::open then scans
ContainerOpen ==
    /\ pc = "closed"
    /\ IF Len(fileBytes) < START_BUF_LEN
       THEN /\ pc' = "open_failed"
            /\ pos' = Len(fileBytes)
            /\ UNCHANGED <<kind, needle, bufLen, scanFrom, scanRes, caller>>
       ELSE IF StartsWith(fileBytes, XMP_START)
       THEN /\ pc' = "opened"
            /\ kind' = "Xmp"
            /\ pos' = START_BUF_LEN
            /\ UNCHANGED <<needle, bufLen, scanFrom, scanRes, caller>>
       ELSE /\ pc' = "scan"
            /\ kind' = "XPacket"
            /\ caller' = "open_begin"
            /\ needle' = XPACKET_BEGIN
            /\ bufLen' = Len(XPACKET_BEGIN)
            /\ pos' = 0
            /\ scanFrom' = 0
            /\ scanRes' = NoRes
    /\ UNCHANGED <<fileBytes, start, span, packet, events, prepared, wres, wbuf, origBytes>>

\* Container::prepare_write(events)
PrepareWrite(evts, overflow_checks) ==
    /\ pc = "opened"
    /\ events' = evts
    /\ prepared' = IF kind = "Xmp" THEN XmpPrepareWrite(evts)
                   ELSE XPacketPrepareWrite(fileBytes, span, evts, overflow_checks)
    /\ pos' = IF kind = "XPacket" /\ span.some THEN span.end ELSE pos
    /\ pc' = "prepared"
    /\ UNCHANGED <<fileBytes, needle, bufLen, scanFrom, scanRes, caller, start, span,
                   packet, kind, wres, wbuf, origBytes>>

\* Container::read_xmp: the standalone file is read from offset 0 to its end,
\* the host file has its packet span read (nothing is read without a span)
ReadXmp ==
    /\ pc = "opened"
    /\ pos' = IF kind = "Xmp" THEN Len(fileBytes)
              ELSE IF span.some THEN span.end ELSE pos
    /\ UNCHANGED <<fileBytes, pc, needle, bufLen, scanFrom, scanRes, caller, start, span,
                   packet, contVars>>

\* Container::write(packet) with the buffer prepare_write returned
Write ==
    /\ pc = "prepared"
    /\ prepared.tag = "ok"
    /\ wbuf' = prepared.bytes
    /\ IF kind = "Xmp"
       THEN \* set_len(0), then write_all at the cursor
            /\ fileBytes' = WriteAt(<<>>, pos, prepared.bytes)
            /\ pos' = pos + Len(prepared.bytes)
            /\ wres' = "ok"
       ELSE LET w == write_packet_bytes(fileBytes, span, prepared.bytes)
            IN  /\ fileBytes' = w.bytes
                /\ pos' = IF w.pos = None THEN pos ELSE w.pos
                /\ wres' = w.res
    /\ pc' = "written"
    /\ UNCHANGED <<needle, bufLen, scanFrom, scanRes, caller, start, span,
                   packet, kind, events, prepared, origBytes>>

\* XPacketFile::write_packet_bytes(new_bytes) with a buffer of the caller's
WritePacketBytes(new_bytes) ==
    /\ pc = "opened"
    /\ kind = "XPacket"
    /\ wbuf' = new_bytes
    /\ LET w == write_packet_bytes(fileBytes, span, new_bytes)
       IN  /\ fileBytes' = w.bytes
           /\ pos' = IF w.pos = None THEN pos ELSE w.pos
           /\ wres' = w.res
    /\ pc' = "written"
    /\ UNCHANGED <<needle, bufLen, scanFrom, scanRes, caller, start, span,
                   packet, kind, events, prepared, origBytes>>

-----------------------------------------------------------------------------
(* ns.rs: namespace URLs *)

RDF == "http://www.w3.org/1999/02/22-rdf-syntax-ns#"

ACDSEE == "http://ns.acdsee.com/iptc/1.0/"

XMP == "http://ns.adobe.com/xap/1.0/"

DC == "http://purl.org/dc/elements/1.1/"

-----------------------------------------------------------------------------
(* xmp/rule.rs: rewrite rules and their actions *)

\* RewriteRule::new; ty and values are those of a SetRdfList action
RewriteRule(namespace, name, prefix, allow_attribute, required, action, ty, values) ==
    [node_namespace |-> namespace, node_name |-> name, node_prefix |-> prefix,
     allow_attribute |-> allow_attribute, required |-> required, action |-> action, ty |-> ty, values |-> values]

\* rules::xmp_metadata_date
xmp_metadata_date ==
    RewriteRule(XMP, "MetadataDate", "xmp", TRUE, FALSE, "SetToCurrentDateTime", "", <<>>)

\* rules::set_rdf_seq, set_rdf_alt, set_rdf_bag, by the list type ty
set_rdf_list(ty, namespace, prefix, name, values) ==
    RewriteRule(namespace, name, prefix, FALSE, TRUE, "SetRdfList", ty, values)

\* RewriteRule::name
RuleName(rule) ==
    IF rule.node_namespace # NoStr
    THEN QName(rule.node_namespace, rule.node_name, rule.node_prefix)
    ELSE QName(NoStr, rule.node_name, NoStr)

\* RewriteRule::matches
RuleMatches(rule, name) ==
    name.local = rule.node_name /\ name.ns = rule.node_namespace

\* the key of a rule in the map of leftover rules
RuleKey(rule) == <<rule.node_namespace, rule.node_name>>

\* rdf_node
rdf_node(name) == QName(RDF, name, "rdf")

RECURSIVE RdfItems(_)
\* one rdf:li element per value
RdfItems(values) ==
    IF values = <<>> THEN <<>>
    ELSE <<StartElement(rdf_node("li"), <<>>, {}), Characters(values[1]),
           EndElement(rdf_node("li"))>> \o RdfItems(Tail(values))

\* the element an action renders under: the input's, or the rule's
RenderName(rule, input) ==
    IF input # <<>> /\ input[1].type = "StartElement"
    THEN input[1].name
    ELSE RuleName(rule)

\* RewriteRule::run: SetToCurrentDateTime::rewrite, SetRdfList::rewrite;
\* now is the timestamp of the call
RuleRun(rule, input, now) ==
    LET name == RenderName(rule, input)
    IN  IF rule.action = "SetToCurrentDateTime"
        THEN <<StartElement(name, <<>>, {}), Characters(now), EndElement(name)>>
        ELSE <<StartElement(name, <<>>, {}),
               StartElement(rdf_node(rule.ty), <<>>, {})>>
             \o RdfItems(rule.values)
             \o <<EndElement(rdf_node(rule.ty)), EndElement(name)>>

\* a run_attribute that renders an attribute for every action
RunAttributeAnyAction(rule, input, now) == [ok |-> TRUE, value |-> now]

\* RewriteRule::run_attribute: only SetToCurrentDateTime renders attributes
RunAttribute(rule, input, now) ==
    IF rule.action = "SetToCurrentDateTime"
    THEN [ok |-> TRUE, value |-> now]
    ELSE [ok |-> FALSE, value |-> ""]

-----------------------------------------------------------------------------
(* xmp.rs: XmpData::write_events *)

IsStart(evt) == evt.type = "StartElement"

IsEnd(evt) == evt.type = "EndElement"

\* name.namespace == Some(ns::RDF) && name.local_name == "Description"
IsDescription(name) == name.ns = RDF /\ name.local = "Description"

\* Namespace::contains
NsContains(namespace, prefix) == \E b \in namespace : b[1] = prefix

\* Namespace::put: an existing prefix keeps its binding
NsPut(namespace, prefix, uri) ==
    IF NsContains(namespace, prefix) THEN namespace
    ELSE namespace \cup {<<prefix, uri>>}

\* Namespace::extend
NsExtend(namespace, other) ==
    namespace \cup {b \in other : ~NsContains(namespace, b[1])}

RECURSIVE AllNamespaces(_, _)
\* the bindings of every rdf:Description start
AllNamespaces(evts, acc) ==
    IF evts = <<>> THEN acc
    ELSE AllNamespaces(Tail(evts),
             IF IsStart(evts[1]) /\ IsDescription(evts[1].name)
             THEN NsExtend(acc, evts[1].namespace)
             ELSE acc)

\* a collection that takes the attributes of the first rdf:Description only
AllAttributesOfFirst(evts, level, acc) ==
    LET hits == {h \in 1..Len(evts) :
                    IsStart(evts[h]) /\ IsDescription(evts[h].name)}
    IN  IF hits = {} THEN acc ELSE acc \o evts[SetMin(hits)].attributes

RECURSIVE AllAttributes(_, _, _)
\* the attributes of the rdf:Description starts met at level 0
AllAttributes(evts, level, acc) ==
    IF evts = <<>> THEN acc
    ELSE LET evt == evts[1]
         IN  IF IsStart(evt) /\ IsDescription(evt.name)
             THEN AllAttributes(Tail(evts), level + 1,
                      IF level = 0 THEN acc \o evt.attributes ELSE acc)
             ELSE IF IsEnd(evt) /\ IsDescription(evt.name)
             THEN AllAttributes(Tail(evts), level - 1, acc)
             ELSE AllAttributes(Tail(evts), level, acc)

\* Iterator::find, position: the first of the indices hits, or 0
FirstIndex(hits) == IF hits = {} THEN 0 ELSE SetMin(hits)

\* register_rule_namespace: bind the rule's prefix on the first
\* rdf:Description start of evts unless the prefix is bound there
register_rule_namespace(evts, rule) ==
    LET IsDescStart(evt) == IsStart(evt) /\ IsDescription(evt.name)
        i == FirstIndex({h \in 1..Len(evts) : IsDescStart(evts[h])})
    IN  IF rule.node_namespace = NoStr \/ i = 0 THEN evts
        ELSE [evts EXCEPT ![i].namespace =
                  NsPut(@, rule.node_prefix, rule.node_namespace)]

RECURSIVE AttributeRules(_, _, _, _, _)
\* the filter_map over the rules: a rule that allows attributes and matches
\* one of all_attributes rewrites it and is dropped; the others are left,
\* as indices into rules. The first failing rule ends the pass.
AttributeRules(rules, i, attrs, left, now) ==
    IF i > Len(rules)
    THEN [ok |-> TRUE, attributes |-> attrs, left |-> left, failed |-> NoName]
    ELSE LET rule == rules[i]
             Hit(attr) == RuleMatches(rule, attr.name)
             a == IF rule.allow_attribute
                  THEN FirstIndex({h \in 1..Len(attrs) : Hit(attrs[h])})
                  ELSE 0
         IN  IF a = 0
             THEN AttributeRules(rules, i + 1, attrs, Append(left, i), now)
             ELSE LET v == RunAttribute(rule, attrs[a].value, now)
                  IN  IF ~v.ok
                      THEN [ok |-> FALSE, attributes |-> attrs, left |-> left,
                            failed |-> attrs[a].name]
                      ELSE AttributeRules(rules, i + 1,
                               [attrs EXCEPT ![a].value = v.value], left, now)

\* a collection that keeps every leftover rule, also two of one key
LeftoverKeepAll(rules, left) == left

\* collecting the leftover rules into a HashMap: of two rules with one key
\* the later one stays
LeftoverMap(rules, left) ==
    LET Last(k) == \A j \in 1..Len(left) :
                       j > k => RuleKey(rules[left[j]]) # RuleKey(rules[left[k]])
        keep == {k \in 1..Len(left) : Last(k)}
        IsKept(i) == \E k \in keep : left[k] = i
    IN  SelectSeq(left, IsKept)

\* a lookup that finds no rule for any element
RuleForNone(rules, left, name) == 0

\* rules.get(&id): the leftover rule with the key of name, or 0
RuleFor(rules, left, name) ==
    LET Hit(i) == RuleKey(rules[i]) = <<name.ns, name.local>>
        k == FirstIndex({h \in 1..Len(left) : Hit(left[h])})
    IN  IF k = 0 THEN 0 ELSE left[k]

RECURSIVE SubtreeEnd(_, _, _)
\* the inner loop that buffers a matched element: the index of the last
\* event taken, from the event after i, until level returns to 0 or the
\* events end
SubtreeEnd(evts, i, level) ==
    IF level = 0 \/ i >= Len(evts) THEN i
    ELSE LET evt == evts[i + 1]
         IN  SubtreeEnd(evts, i + 1,
                 IF IsStart(evt) THEN level + 1
                 ELSE IF IsEnd(evt) THEN level - 1
                 ELSE level)

RECURSIVE RunRequired(_, _, _, _)
\* rules.drain(): every leftover rule, in the order drained, that is required
\* is rendered with no input
RunRequired(rules, drained, evts, now) ==
    IF drained = <<>> THEN evts
    ELSE LET rule == rules[drained[1]]
         IN  RunRequired(rules, Tail(drained),
                 IF rule.required
                 THEN register_rule_namespace(evts, rule) \o RuleRun(rule, <<>>, now)
                 ELSE evts,
                 now)

\* a closing step that appends no required rule
FlushSkipRequired(rules, w, order, now) == w.evts \o w.pending

\* a closing step that pushes the pending end event before the required
\* leftover rules
FlushEndFirst(rules, w, order, now) ==
    LET InLeft(i) == \E k \in 1..Len(w.left) : w.left[k] = i
        drained == SelectSeq(order, InLeft)
    IN  RunRequired(rules, drained, w.evts \o w.pending, now)

\* the closing step: the required leftover rules, then the pending end
\* event; order is the order in which the HashMap drains
Flush(rules, w, order, now) ==
    LET InLeft(i) == \E k \in 1..Len(w.left) : w.left[k] = i
        drained == SelectSeq(order, InLeft)
    IN  RunRequired(rules, drained, w.evts, now) \o w.pending

\* one iteration of the main loop on the event at i: the state after it and
\* the index of the next event. w: state, level, pending end event, output
\* events, leftover rules, the merged attributes and namespaces.
WriteStep(events_in, rules, w, i, order, now) ==
    LET evt == events_in[i]
        descStart == IsStart(evt) /\ IsDescription(evt.name)
        descEnd == IsEnd(evt) /\ IsDescription(evt.name)
        push == [w EXCEPT !.evts = Append(@, evt)]
    IN  CASE w.state = "Init" ->
                 IF descStart
                 THEN [w |-> [w EXCEPT
                                !.evts = Append(@, StartElement(evt.name,
                                             w.all_attributes, w.all_namespaces)),
                                !.all_attributes = <<>>,
                                !.state = "InDescription",
                                !.level = 1],
                       next |-> i + 1]
                 ELSE IF evt.type = "StartDocument"
                 THEN [w |-> w, next |-> i + 1]
                 ELSE [w |-> push, next |-> i + 1]
          [] w.state = "InDescription" ->
                 IF descEnd
                 THEN IF w.level = 1
                      THEN [w |-> [w EXCEPT !.state = "SkipDescription",
                                            !.pending = <<evt>>],
                            next |-> i + 1]
                      ELSE [w |-> [push EXCEPT !.level = @ - 1], next |-> i + 1]
                 ELSE IF descStart
                 THEN [w |-> [push EXCEPT !.level = @ + 1], next |-> i + 1]
                 ELSE IF IsStart(evt) /\ w.level = 1
                           /\ RuleFor(rules, w.left, evt.name) # 0
                 THEN LET r == RuleFor(rules, w.left, evt.name)
                          last == SubtreeEnd(events_in, i, 1)
                          rule_events == SubSeq(events_in, i, last)
                          NotR(k) == k # r
                      IN  [w |-> [w EXCEPT
                                    !.evts = register_rule_namespace(@, rules[r])
                                                 \o RuleRun(rules[r], rule_events, now),
                                    !.left = SelectSeq(@, NotR)],
                           next |-> last + 1]
                 ELSE [w |-> push, next |-> i + 1]
          [] w.state = "SkipDescription" ->
                 IF descStart
                 THEN [w |-> [w EXCEPT !.state = "InDescription", !.level = 1,
                                       !.pending = <<>>],
                       next |-> i + 1]
                 ELSE IF w.pending # <<>>
                 THEN [w |-> [w EXCEPT !.evts = Append(Flush(rules, w, order, now), evt),
                                       !.pending = <<>>,
                                       !.left = <<>>],
                       next |-> i + 1]
                 ELSE [w |-> push, next |-> i + 1]

RECURSIVE WriteLoop(_, _, _, _, _, _)
\* while let Some(evt) = evt_iter.next()
WriteLoop(events_in, rules, w, i, order, now) ==
    IF i > Len(events_in) THEN w
    ELSE LET s == WriteStep(events_in, rules, w, i, order, now)
         IN  WriteLoop(events_in, rules, s.w, s.next, order, now)

\* XmpData::write_events(rules) on the events of a document: Ok(evts), or
\* RuleFailed(failed). order is the order in which the map of leftover rules
\* drains, now the timestamp of the call.
write_events(events_in, rules, order, now) ==
    LET a == AttributeRules(rules, 1, AllAttributes(events_in, 0, <<>>), <<>>, now)
        w0 == [state |-> "Init", level |-> 0, pending |-> <<>>, evts |-> <<>>,
               left |-> LeftoverMap(rules, a.left),
               all_attributes |-> a.attributes,
               all_namespaces |-> AllNamespaces(events_in, {})]
    IN  IF ~a.ok
        THEN [ok |-> FALSE, evts |-> <<>>, failed |-> a.failed]
        ELSE [ok |-> TRUE,
              evts |-> WriteLoop(events_in, rules, w0, 1, order, now).evts,
              failed |-> NoName]

-----------------------------------------------------------------------------
(* xmp.rs: the field accessors *)

NoValue == [some |-> FALSE, value |-> ""]

SomeValue(v) == [some |-> TRUE, value |-> v]

\* acdsee_attr_value: the first attribute of the proprietary namespace with
\* this local name on an rdf:Description start
acdsee_attr_value(evts, local_name) ==
    LET IsField(attr) == attr.name.ns = ACDSEE /\ attr.name.local = local_name
        Holds(evt) == /\ IsStart(evt)
                      /\ IsDescription(evt.name)
                      /\ \E h \in 1..Len(evt.attributes) : IsField(evt.attributes[h])
        i == FirstIndex({h \in 1..Len(evts) : Holds(evts[h])})
    IN  IF i = 0 THEN NoValue
        ELSE LET attributes == evts[i].attributes
                 a == FirstIndex({h \in 1..Len(attributes) : IsField(attributes[h])})
             IN  SomeValue(attributes[a].value)

\* acdsee_tag_value with the element looked up before the attribute
acdsee_tag_value_element_first(evts, local_name) ==
    LET attr == acdsee_attr_value(evts, local_name)
        IsField(evt) == /\ IsStart(evt)
                        /\ evt.name.ns = ACDSEE
                        /\ evt.name.local = local_name
        i == FirstIndex({h \in 1..Len(evts) : IsField(evts[h])})
    IN  IF i # 0 /\ i < Len(evts) /\ evts[i + 1].type = "Characters"
        THEN SomeValue(evts[i + 1].text)
        ELSE attr

\* acdsee_tag_value: the attribute, else the text that follows the first
\* start of the element
acdsee_tag_value(evts, local_name) ==
    LET attr == acdsee_attr_value(evts, local_name)
        IsField(evt) == /\ IsStart(evt)
                        /\ evt.name.ns = ACDSEE
                        /\ evt.name.local = local_name
        i == FirstIndex({h \in 1..Len(evts) : IsField(evts[h])})
    IN  IF attr.some THEN attr
        ELSE IF i # 0 /\ i < Len(evts) /\ evts[i + 1].type = "Characters"
        THEN SomeValue(evts[i + 1].text)
        ELSE NoValue

RECURSIVE TextsOf(_)
\* the texts of the Characters events of evts, in order
TextsOf(evts) ==
    IF evts = <<>> THEN <<>>
    ELSE IF evts[1].type = "Characters"
    THEN <<evts[1].text>> \o TextsOf(Tail(evts))
    ELSE TextsOf(Tail(evts))

\* acdsee_bag_value: the texts from the first start of the element up to the
\* first end event with its name
acdsee_bag_value(evts, local_name) ==
    LET IsField(evt) == evt.name.ns = ACDSEE /\ evt.name.local = local_name
        IsFieldStart(evt) == IsStart(evt) /\ IsField(evt)
        i == FirstIndex({h \in 1..Len(evts) : IsFieldStart(evts[h])})
        rest == IF i = 0 THEN <<>> ELSE SubSeq(evts, i, Len(evts))
        IsFieldEnd(evt) == IsEnd(evt) /\ IsField(evt)
        j == FirstIndex({h \in 1..Len(rest) : IsFieldEnd(rest[h])})
    IN  TextsOf(IF j = 0 THEN rest ELSE SubSeq(rest, 1, j - 1))

-----------------------------------------------------------------------------
(* xmp.rs: XmpData::parse, and the rewrite of a parsed document *)

\* Result<Vec<XmlEvent>, WriteError> before write_events returned
NoOutput == [ok |-> FALSE, evts |-> <<>>, failed |-> NoName]

\* no document is being parsed or rewritten
NoDocument ==
    /\ doc = <<>>
    /\ open = <<>>
    /\ ruleset = <<>>
    /\ out1 = NoOutput
    /\ out2 = NoOutput

\* the namespace bindings in scope of a start event: rdf, and the prefixes
\* its name and attributes use
ScopeOf(name, attributes) ==
    {<<"rdf", RDF>>}
        \cup (IF name.prefix # NoStr THEN {<<name.prefix, name.ns>>} ELSE {})
        \cup {<<attributes[i].name.prefix, attributes[i].name.ns>> :
                  i \in 1..Len(attributes)}

\* the number of events of evts of a type
CountType(evts, type) == Cardinality({i \in 1..Len(evts) : evts[i].type = type})

\* the reader yields the start of the root element, or of a child of the
\* open element
ParseStart(name, attributes, MaxStarts) ==
    /\ pc = "parsing"
    /\ CountType(doc, "StartElement") < MaxStarts
    /\ open = <<>> => CountType(doc, "StartElement") = 0
    /\ doc' = Append(doc, StartElement(name, attributes, ScopeOf(name, attributes)))
    /\ open' = <<name>> \o open
    /\ UNCHANGED <<pc, ruleset, out1, out2>>

\* the reader yields the text of the open element; adjacent text is one event
ParseCharacters(text, MaxChars) ==
    /\ pc = "parsing"
    /\ open # <<>>
    /\ doc[Len(doc)].type # "Characters"
    /\ CountType(doc, "Characters") < MaxChars
    /\ doc' = Append(doc, Characters(text))
    /\ UNCHANGED <<pc, open, ruleset, out1, out2>>

\* the reader yields the end of the open element
ParseEnd ==
    /\ pc = "parsing"
    /\ open # <<>>
    /\ doc' = Append(doc, EndElement(open[1]))
    /\ open' = Tail(open)
    /\ UNCHANGED <<pc, ruleset, out1, out2>>

\* the reader yields the end of the document once the root element is closed
ParseEndDocument ==
    /\ pc = "parsing"
    /\ open = <<>>
    /\ CountType(doc, "StartElement") > 0
    /\ doc' = Append(doc, EndDocument)
    /\ pc' = "parsed"
    /\ UNCHANGED <<open, ruleset, out1, out2>>

\* the orders in which a map of n ruleset can drain
DrainOrders(n) ==
    {o \in [1..n -> 1..n] : \A i, j \in 1..n : i # j => o[i] # o[j]}

\* write_events(rs) on the parsed document
WriteEvents(rs, order, now) ==
    /\ pc = "parsed"
    /\ ruleset' = rs
    /\ out1' = write_events(doc, rs, order, now)
    /\ pc' = "rewritten"
    /\ UNCHANGED <<doc, open, out2>>

\* write_events with the same ruleset on the events the first call returned
WriteEventsAgain(order, now) ==
    /\ pc = "rewritten"
    /\ out1.ok
    /\ out2' = write_events(out1.evts, ruleset, order, now)
    /\ pc' = "rewritten2"
    /\ UNCHANGED <<doc, open, ruleset, out1>>

-----------------------------------------------------------------------------
(* svc/state/metadata_file.rs: MetadataFile::check_rewrite and apply *)

\* FileState: its variant, and the buffer of Ready
FileState(tag) == [tag |-> tag, bytes |-> <<>>]

\* FileState::Ready(Arc<Vec<u8>>): the buffer prepared from the contents
\* with this id, by a check_rewrite or by an apply
Ready(id, by) == [tag |-> "Ready", bytes |-> <<id, by>>]

\* a file: data is its contents (an id, and what get_rewrite_state makes of
\* them), mtime its modification time
DiskFile(id, outcome, mtime) == [data |-> [id |-> id, outcome |-> outcome], mtime |-> mtime]

\* no check_rewrite or apply is running
NoLocals == [modified |-> None, known |-> None, stored |-> FileState("Init"),
             state |-> FileState("Init"), reread |-> None, backup_mode |-> "none"]

\* a backup file: the id of the contents of the file it was copied from,
\* None for a backup file that was there before the service ran
BackupOf(id) == [exists |-> TRUE, data |-> id]

NoBackup == [exists |-> FALSE, data |-> None]

\* no Container::write happened
NoWrite == [bytes |-> <<>>, modified |-> None, known |-> None,
            stored |-> FileState("Init"), reread |-> None]

\* no MetadataFile is in use
NoService ==
    /\ disk = DiskFile(0, "Init", 0)
    /\ backupFile = NoBackup
    /\ last_check = None
    /\ state = FileState("Init")
    /\ ap = NoLocals
    /\ wrote = NoWrite

\* get_rewrite_state on the contents of the file: Ready with the buffer
\* prepared from them, or the state that tells why there is none
get_rewrite_state(data, by) ==
    IF data.outcome = "Ready" THEN Ready(data.id, by) ELSE FileState(data.outcome)

\* a test that never finds the known state stale
IsStaleNever(known, modified) == FALSE

\* get_apply_state: the known state is stale
IsStale(known, modified) ==
    IF known = None THEN TRUE ELSE modified > known

\* another program rewrites the file
Modify(outcome, mtime, MaxId) ==
    /\ pc \in {"svc", "check", "reread", "decide", "write"}
    /\ disk.data.id < MaxId
    /\ disk' = DiskFile(disk.data.id + 1, outcome, mtime)
    /\ UNCHANGED <<pc, backupFile, last_check, state, ap, wrote>>

\* another program sets the modification time of the file
Touch(mtime) ==
    /\ pc \in {"svc", "check", "reread", "decide", "write"}
    /\ mtime # disk.mtime
    /\ disk' = [disk EXCEPT !.mtime = mtime]
    /\ UNCHANGED <<pc, backupFile, last_check, state, ap, wrote>>

\* check_rewrite_inner: File::open, metadata, modified; an error of one of
\* them ends the check
CheckOpen(io_ok) ==
    /\ pc = "svc"
    /\ IF io_ok
       THEN /\ ap' = [NoLocals EXCEPT !.modified = disk.mtime]
            /\ pc' = "check"
            /\ UNCHANGED <<state, last_check>>
       ELSE /\ state' = FileState("IoError")
            /\ last_check' = None
            /\ UNCHANGED <<pc, ap>>
    /\ UNCHANGED <<disk, backupFile, wrote>>

\* check_rewrite: get_rewrite_state on the open file, and the new MetadataFile
CheckRewrite ==
    /\ pc = "check"
    /\ state' = get_rewrite_state(disk.data, "check")
    /\ last_check' = ap.modified
    /\ ap' = NoLocals
    /\ pc' = "svc"
    /\ UNCHANGED <<disk, backupFile, wrote>>

\* apply_inner: open the file for reading and writing, metadata, modified;
\* then get_apply_state decides whether the known state is stale
ApplyOpen(backup_mode, io_ok) ==
    /\ pc = "svc"
    /\ IF io_ok
       THEN /\ ap' = [NoLocals EXCEPT !.modified = disk.mtime,
                                      !.known = last_check,
                                      !.stored = state,
                                      !.state = state,
                                      !.backup_mode = backup_mode]
            /\ pc' = IF IsStale(last_check, disk.mtime) THEN "reread" ELSE "decide"
            /\ UNCHANGED <<state, last_check>>
       ELSE /\ state' = FileState("IoError")
            /\ last_check' = None
            /\ UNCHANGED <<pc, ap>>
    /\ UNCHANGED <<disk, backupFile, wrote>>

\* get_apply_state, the stale branch: get_rewrite_state on the open file
ApplyReread ==
    /\ pc = "reread"
    /\ ap' = [ap EXCEPT !.state = get_rewrite_state(disk.data, "apply"),
                        !.reread = disk.data.id]
    /\ pc' = "decide"
    /\ UNCHANGED <<disk, backupFile, last_check, state, wrote>>

\* a backup step that copies over a backup file it has to keep
ApplyBackupNoKeep(io_ok) ==
    /\ pc = "decide"
    /\ IF ap.state.tag # "Ready"
       THEN /\ state' = ap.state
            /\ last_check' = ap.modified
            /\ ap' = NoLocals
            /\ pc' = "svc"
            /\ UNCHANGED backupFile
       ELSE IF ap.backup_mode # "NoBackups" /\ ~io_ok
       THEN /\ state' = FileState("BackupError")
            /\ last_check' = ap.modified
            /\ ap' = NoLocals
            /\ pc' = "svc"
            /\ UNCHANGED backupFile
       ELSE /\ backupFile' = IF ap.backup_mode = "NoBackups" THEN backupFile
                             ELSE BackupOf(disk.data.id)
            /\ pc' = "write"
            /\ UNCHANGED <<state, last_check, ap>>
    /\ UNCHANGED <<disk, wrote>>

\* get_apply_state, match state: a state that is not Ready is the result;
\* for Ready the file is backed up first, as the backup mode of the apply
\* tells, and a failed backup is the result
ApplyBackup(io_ok) ==
    /\ pc = "decide"
    /\ IF ap.state.tag # "Ready"
       THEN /\ state' = ap.state
            /\ last_check' = ap.modified
            /\ ap' = NoLocals
            /\ pc' = "svc"
            /\ UNCHANGED backupFile
       ELSE IF \/ (ap.backup_mode = "BackupKeep" /\ backupFile.exists)
               \/ (ap.backup_mode # "NoBackups" /\ ~io_ok)
       THEN /\ state' = FileState("BackupError")
            /\ last_check' = ap.modified
            /\ ap' = NoLocals
            /\ pc' = "svc"
            /\ UNCHANGED backupFile
       ELSE /\ backupFile' = IF ap.backup_mode = "NoBackups" THEN backupFile
                             ELSE BackupOf(disk.data.id)
            /\ pc' = "write"
            /\ UNCHANGED <<state, last_check, ap>>
    /\ UNCHANGED <<disk, wrote>>

\* get_apply_state: Container::open and Container::write of the Ready
\* buffer; the write gives the file new contents and a modification time
ApplyWrite(open_ok, write_ok, mtime, MaxId) ==
    /\ pc = "write"
    /\ disk.data.id < MaxId
    /\ IF ~open_ok
       THEN /\ state' = FileState("ContainerError")
            /\ UNCHANGED <<disk, wrote>>
       ELSE /\ wrote' = [bytes |-> ap.state.bytes, modified |-> ap.modified,
                         known |-> ap.known, stored |-> ap.stored,
                         reread |-> ap.reread]
            /\ disk' = DiskFile(disk.data.id + 1,
                                IF write_ok THEN "Ready" ELSE "ContainerError",
                                mtime)
            /\ state' = FileState(IF write_ok THEN "Complete" ELSE "ApplyError")
    /\ last_check' = ap.modified
    /\ ap' = NoLocals
    /\ pc' = "svc"
    /\ UNCHANGED backupFile

-----------------------------------------------------------------------------
(* The service on one file that other programs modify *)

\* the most rewrites of the file, by the service and by other programs
MaxVersions == 2

\* the latest modification time
MaxTime == 2

\* what get_rewrite_state makes of the contents another program wrote
RewriteStates == {"Ready", "NoAcdData"}

BackupModes == {"BackupKeep", "BackupOverwrite", "NoBackups"}

InitService ==
    /\ fileBytes = <<>>
    /\ pos = 0
    /\ pc = "svc"
    /\ needle = BOUND_MARKER
    /\ bufLen = Len(BOUND_MARKER)
    /\ scanFrom = 0
    /\ scanRes = NoRes
    /\ caller = "user"
    /\ start = 0
    /\ span = NoSpan
    /\ packet = NoPacket
    /\ kind = "none"
    /\ events = <<>>
    /\ prepared = NoPrep
    /\ wbuf = <<>>
    /\ wres = "none"
    /\ origBytes = <<>>
    /\ NoDocument
    /\ \E k \in RewriteStates : disk = DiskFile(0, k, 0)
    /\ backupFile \in {NoBackup, BackupOf(None)}
    /\ last_check = None
    /\ state = FileState("Init")
    /\ ap = NoLocals
    /\ wrote = NoWrite
    /\ NoLoop
    /\ NoTags

NextService ==
    /\ \/ \E k \in RewriteStates, t \in 0..MaxTime : Modify(k, t, MaxVersions)
       \/ \E t \in 0..MaxTime : Touch(t)
       \/ \E io_ok \in BOOLEAN : CheckOpen(io_ok)
       \/ CheckRewrite
       \/ \E m \in BackupModes, io_ok \in BOOLEAN : ApplyOpen(m, io_ok)
       \/ ApplyReread
       \/ \E io_ok \in BOOLEAN : ApplyBackup(io_ok)
       \/ \E open_ok, write_ok \in BOOLEAN, t \in 0..MaxTime :
              /\ t >= disk.mtime
              /\ ApplyWrite(open_ok, write_ok, t, MaxVersions)
    /\ UNCHANGED <<fileBytes, pos, needle, bufLen, scanFrom, scanRes, caller,
                   start, span, packet, contVars, xmpVars, loopVars, tagVars>>

SpecService == InitService /\ [][NextService]_vars

-----------------------------------------------------------------------------
(* The rewrite engine on the documents the reader can yield *)

\* the most elements of a document
MaxElements == 4

\* the most text events of a document
MaxTexts == 1

RdfRoot == QName(RDF, "RDF", "rdf")

RdfDescription == QName(RDF, "Description", "rdf")

DcTitle == QName(DC, "title", "dc")

AcdseeCaption == QName(ACDSEE, "caption", "acdsee")

XmpMetadataDate == QName(XMP, "MetadataDate", "xmp")

\* the elements below the root
ChildNames == {RdfDescription, DcTitle, AcdseeCaption}

\* the attribute lists of a description element
\* xmp:MetadataDate under another prefix bound to the same namespace
XapMetadataDate == QName(XMP, "MetadataDate", "xap")

DescriptionAttributes ==
    {<<>>, <<Attr(AcdseeCaption, "c1")>>,
     <<Attr(AcdseeCaption, "c2"), Attr(XmpMetadataDate, "old")>>,
     <<Attr(XapMetadataDate, "old")>>}

Texts == {"t"}

\* the values chrono::Local::now() formats to
Timestamps == {"2021-01-01T00:00:00+00:00", "2021-01-01T00:00:01+00:00"}

TitleAlt == set_rdf_list("Alt", DC, "dc", "title", <<"v">>)

TitleSeq == set_rdf_list("Seq", DC, "dc", "title", <<>>)

DateRequired ==
    RewriteRule(XMP, "MetadataDate", "xmp", TRUE, TRUE, "SetToCurrentDateTime", "", <<>>)

DateBag ==
    RewriteRule(XMP, "MetadataDate", "xmp", TRUE, TRUE, "SetRdfList", "Bag", <<"v">>)

\* the rule sets handed to write_events
\* get_rewrite_state: the rules of to_ruleset (here set_dc_title of a
\* caption), then xmp_metadata_date
FileRules == <<TitleAlt, xmp_metadata_date>>

RuleSets ==
    {<<>>, <<TitleAlt>>, <<TitleSeq>>, <<xmp_metadata_date>>, <<DateBag>>,
     <<TitleAlt, DateRequired>>, <<TitleAlt, TitleSeq>>, FileRules}

InitRewrite ==
    /\ fileBytes = <<>>
    /\ pos = 0
    /\ pc = "parsing"
    /\ needle = BOUND_MARKER
    /\ bufLen = Len(BOUND_MARKER)
    /\ scanFrom = 0
    /\ scanRes = NoRes
    /\ caller = "user"
    /\ start = 0
    /\ span = NoSpan
    /\ packet = NoPacket
    /\ kind = "none"
    /\ events = <<>>
    /\ prepared = NoPrep
    /\ wbuf = <<>>
    /\ wres = "none"
    /\ origBytes = <<>>
    /\ doc = <<StartDocument>>
    /\ open = <<>>
    /\ ruleset = <<>>
    /\ out1 = NoOutput
    /\ out2 = NoOutput
    /\ NoService
    /\ NoLoop
    /\ NoTags

NextRewrite ==
    /\ \/ ParseStart(RdfRoot, <<>>, 1)
       \/ \E name \in ChildNames, attributes \in DescriptionAttributes :
              /\ open # <<>>
              /\ attributes # <<>> => IsDescription(name)
              /\ ParseStart(name, attributes, MaxElements)
       \/ \E text \in Texts : ParseCharacters(text, MaxTexts)
       \/ ParseEnd
       \/ ParseEndDocument
       \/ \E rs \in RuleSets, now \in Timestamps :
              \E order \in DrainOrders(Len(rs)) : WriteEvents(rs, order, now)
       \/ \E now \in Timestamps :
              \E order \in DrainOrders(Len(ruleset)) : WriteEventsAgain(order, now)
    /\ UNCHANGED <<fileBytes, pos, needle, bufLen, scanFrom, scanRes, caller,
                   start, span, packet, contVars, svcVars, loopVars, tagVars>>

SpecRewrite == InitRewrite /\ [][NextRewrite]_vars

-----------------------------------------------------------------------------
(* The scanner and the locator on host streams built from marker fragments *)

MaxScanFrags == 4

ScanFragments ==
    { XPACKET_BEGIN, XPACKET_END, BOUND_MARKER, <<60>>, <<61>> }

ScanStreams == ConcatsUpTo(ScanFragments, MaxScanFrags)

Needles == {XPACKET_BEGIN, XPACKET_END, BOUND_MARKER}

InitScan ==
    /\ fileBytes \in ScanStreams
    /\ pos = 0
    /\ pc = "idle"
    /\ needle = BOUND_MARKER
    /\ bufLen = Len(BOUND_MARKER)
    /\ scanFrom = 0
    /\ scanRes = NoRes
    /\ caller = "user"
    /\ start = 0
    /\ span = NoSpan
    /\ packet = NoPacket
    /\ kind = "none"
    /\ events = <<>>
    /\ prepared = NoPrep
    /\ wbuf = <<>>
    /\ wres = "none"
    /\ origBytes = fileBytes
    /\ NoDocument
    /\ NoService
    /\ NoLoop
    /\ NoTags

NextScan ==
    /\ \/ \E n \in Needles, p \in 0..Len(fileBytes) : CallFindNeedle(n, p)
       \/ FindNeedleStep
       \/ OpenBegin
       \/ OpenEnd
       \/ OpenBound
       \/ OpenDone
    /\ UNCHANGED <<packet, contVars, xmpVars, svcVars, loopVars, tagVars>>

SpecScan == InitScan /\ [][NextScan]_vars

-----------------------------------------------------------------------------
(* The scanner called with a read window of any length *)

MaxStream == 4

MaxPad == 3

\* an 8-byte needle of distinct bytes
Needle8 == <<1, 2, 3, 4, 5, 6, 7, 8>>

Pad(n) == [i \in 1..n |-> 9]

WindowNeedles == {<<1>>, <<1, 2>>, <<1, 1>>, <<1, 2, 1>>, Needle8}

\* the windows a needle is searched with: its own length, one more, and 4
WindowsOf(n) == {Len(n), Len(n) + 1, 4}

WindowStreams ==
    (UNION {[1..n -> {1, 2}] : n \in 0..MaxStream})
    \cup {Pad(k) \o Needle8 \o Pad(m) : k \in 0..MaxPad, m \in 0..MaxPad}

InitWindow ==
    /\ fileBytes \in WindowStreams
    /\ pos = 0
    /\ pc = "idle"
    /\ needle = BOUND_MARKER
    /\ bufLen = Len(BOUND_MARKER)
    /\ scanFrom = 0
    /\ scanRes = NoRes
    /\ caller = "user"
    /\ start = 0
    /\ span = NoSpan
    /\ packet = NoPacket
    /\ kind = "none"
    /\ events = <<>>
    /\ prepared = NoPrep
    /\ wbuf = <<>>
    /\ wres = "none"
    /\ origBytes = fileBytes
    /\ NoDocument
    /\ NoService
    /\ NoLoop
    /\ NoTags

NextWindow ==
    /\ \/ \E n \in WindowNeedles :
              \E w \in WindowsOf(n), p \in 0..Len(fileBytes) :
                  CallFindNeedleWindow(n, w, p)
       \/ FindNeedleStep
    /\ UNCHANGED <<packet, contVars, xmpVars, svcVars, loopVars, tagVars>>

SpecWindow == InitWindow /\ [][NextWindow]_vars

\* the loop of find_needle runs on: an iteration that is possible is taken
SpecWindowLive ==
    SpecWindow
    /\ WF_vars(FindNeedleStep /\ UNCHANGED <<packet, contVars, xmpVars, svcVars, loopVars, tagVars>>)

-----------------------------------------------------------------------------
(* The container on host files that hold a packet between host bytes *)

MaxBody == 17

\* the packet bodies: padding of every length up to MaxBody
Bodies == {Spaces(n) : n \in 0..MaxBody}

HostPrefixes == {<<>>, <<255, 216>>}

HostSuffixes == {<<>>, <<255, 217>>}

PacketHeaders ==
    { XPACKET_HEADER \o BOUND_MARKER, XPACKET_BEGIN \o BOUND_MARKER, XPACKET_HEADER }

PacketFooters == {FOOTER_DQ, FOOTER_SQ, XPACKET_END \o BOUND_MARKER, <<>>}

\* host files without a whole packet: no begin marker; an end marker and a
\* `?>` only before the begin marker; a `?>` only before the end marker
NoPacketFiles ==
    { Spaces(16),
      XPACKET_END \o BOUND_MARKER \o XPACKET_HEADER,
      BOUND_MARKER \o XPACKET_HEADER \o XPACKET_END,
      XPACKET_HEADER \o BOUND_MARKER \o XPACKET_END \o <<61>> }

HostFiles ==
    { pre \o hdr \o body \o ftr \o suf :
        pre \in HostPrefixes, hdr \in PacketHeaders, body \in Bodies,
        ftr \in PacketFooters, suf \in HostSuffixes }
    \cup {XMP_START \o Spaces(n) : n \in {10, 12}}
    \cup {<<>>, XMP_START}
    \cup NoPacketFiles

TagA == QName(NoStr, "a", NoStr)

TagB == QName(NoStr, "b", NoStr)

\* event sequences to serialize: nothing, an empty element, a nested
\* element, a text element, and an end tag that closes nothing
EmitEvents ==
    { <<>>,
      <<StartElement(TagA, <<>>, {}), EndElement(TagA)>>,
      <<StartElement(TagA, <<>>, {}), StartElement(TagB, <<>>, {}),
        EndElement(TagB), EndElement(TagA)>>,
      <<StartElement(TagA, <<>>, {}), Characters("t"), EndElement(TagA)>>,
      <<EndElement(TagA)>> }

\* buffers a caller may hand to write_packet_bytes: as long as the located
\* range, one byte shorter or longer, a single byte, or empty
WriteBuffers ==
    LET n == span.end - span.start
    IN  {[i \in 1..k |-> 120] : k \in {0, 1, n - 1, n, n + 1} \cap (0..(n + 1))}

InitContainer ==
    /\ fileBytes \in HostFiles
    /\ pos = 0
    /\ pc = "closed"
    /\ needle = BOUND_MARKER
    /\ bufLen = Len(BOUND_MARKER)
    /\ scanFrom = 0
    /\ scanRes = NoRes
    /\ caller = "user"
    /\ start = 0
    /\ span = NoSpan
    /\ packet = NoPacket
    /\ kind = "none"
    /\ events = <<>>
    /\ prepared = NoPrep
    /\ wbuf = <<>>
    /\ wres = "none"
    /\ origBytes = fileBytes
    /\ NoDocument
    /\ NoService
    /\ NoLoop
    /\ NoTags

NextContainer ==
    /\ \/ ContainerOpen
       \/ /\ \/ FindNeedleStep
             \/ OpenEnd
             \/ OpenBound
             \/ OpenDone
          /\ UNCHANGED <<packet, contVars>>
       \/ \E evts \in EmitEvents, overflow_checks \in BOOLEAN :
              PrepareWrite(evts, overflow_checks)
       \/ ReadXmp
       \/ Write
       \/ \E new_bytes \in WriteBuffers : WritePacketBytes(new_bytes)
    /\ UNCHANGED <<xmpVars, svcVars, loopVars, tagVars>>

SpecContainer == InitContainer /\ [][NextContainer]_vars

-----------------------------------------------------------------------------
(* Claims about the size-constrained emitter and the write *)

\* the located packet as the splitter sees it, before any write
LocatedPacket == XPacketTryFrom(read_packet_bytes(origBytes, span))

\* the i-th strategy serializes the events into at most bodyLen - 2 bytes
StrategyFits(i, bodyLen) ==
    LET r == events_to_vec(events, emitter_configs[i])
    IN  r.ok /\ Len(r.out) <= bodyLen - 2

\* a prepare_write on a located packet the splitter accepts
PreparedOnPacket ==
    /\ pc = "prepared"
    /\ kind = "XPacket"
    /\ span.some
    /\ LocatedPacket.tag = "ok"

\* C5: when the serialization under some strategy has length L <= N - 2,
\* prepare_write succeeds; the buffer is as long as the packet, its header
\* and footer are the packet's, and its body is a newline, the L serialized
\* bytes, space padding and a final newline.
C5_PrepareWriteFits ==
    (/\ PreparedOnPacket
     /\ \E i \in 1..Len(emitter_configs) : StrategyFits(i, Len(LocatedPacket.body)))
        => LET xp == LocatedPacket
               n == Len(xp.body)
               h == Len(xp.header)
               buf == prepared.bytes
           IN  /\ prepared.tag = "ok"
               /\ Len(buf) = span.end - span.start
               /\ Slice(buf, 0, h) = xp.header
               /\ Slice(buf, h + n, Len(buf)) = xp.footer
               /\ \E i \in 1..Len(emitter_configs) :
                      LET out == events_to_vec(events, emitter_configs[i]).out
                      IN  /\ StrategyFits(i, n)
                          /\ Slice(buf, h, h + n)
                                 = <<10>> \o out \o Spaces(n - 2 - Len(out)) \o <<10>>

\* a serialization that fits with padding left, in a packet between host bytes
C5_Witness ==
    /\ PreparedOnPacket
    /\ prepared.tag = "ok"
    /\ Len(events) = 4
    /\ StrategyFits(2, Len(LocatedPacket.body))
    /\ ~StrategyFits(1, Len(LocatedPacket.body))
    /\ Len(events_to_vec(events, FALSE).out) < Len(LocatedPacket.body) - 2

\* C6: when the serialization is longer than N - 2 under every strategy,
\* for every body length N >= 0, prepare_write returns NotEnoughSpace (it
\* does not panic and returns no buffer) and the file is unchanged.
C6_PrepareWriteNoSpace ==
    (/\ PreparedOnPacket
     /\ \A i \in 1..Len(emitter_configs) :
            /\ events_to_vec(events, emitter_configs[i]).ok
            /\ ~StrategyFits(i, Len(LocatedPacket.body)))
        => /\ prepared = PrepErr("NotEnoughSpace")
           /\ fileBytes = origBytes

\* C7: a write on a file opened as a packet container leaves the file as
\* long as it was and every byte outside the located range as it was; after
\* prepare_write and write the header and the footer are also as they were;
\* a buffer of another length than the range is refused with
\* WrongPacketSize, and any buffer with NoPacket when no packet was located,
\* the file being left as it was.
C7_WriteFrame ==
    (pc = "written" /\ kind = "XPacket") =>
        IF ~span.some
        THEN wres = "NoPacket" /\ fileBytes = origBytes
        ELSE IF Len(wbuf) # span.end - span.start
        THEN wres = "WrongPacketSize" /\ fileBytes = origBytes
        ELSE /\ wres = "ok"
             /\ Len(fileBytes) = Len(origBytes)
             /\ \A i \in 1..Len(origBytes) :
                    (i <= span.start \/ i > span.end) => fileBytes[i] = origBytes[i]
             /\ Slice(fileBytes, span.start, span.end) = wbuf
             /\ prepared.tag = "ok" =>
                    LET xp == LocatedPacket
                        h == span.start + Len(xp.header)
                        f == span.end - Len(xp.footer)
                    IN  /\ Slice(fileBytes, span.start, h) = xp.header
                        /\ Slice(fileBytes, f, span.end) = xp.footer
                        /\ Slice(fileBytes, span.start, h)
                               = Slice(origBytes, span.start, h)
                        /\ Slice(fileBytes, f, span.end) = Slice(origBytes, f, span.end)

\* a prepared buffer written into a packet that lies between host bytes,
\* changing the body
C7_Witness ==
    /\ pc = "written"
    /\ kind = "XPacket"
    /\ prepared.tag = "ok"
    /\ wres = "ok"
    /\ span.start > 0
    /\ span.end < Len(fileBytes)
    /\ fileBytes # origBytes

\* the buffer prepare_write returns when it takes the serialization out
PacketWith(out) ==
    LocatedPacket.header \o FillBody(Len(LocatedPacket.body), out)
        \o LocatedPacket.footer

\* C20: the strategies are tried in the order indented, then compact: the
\* buffer holds the indented serialization whenever that one fits in N - 2
\* bytes (nothing is tried after the first fit), and it holds the compact
\* serialization only when the indented one does not fit and the compact one
\* does.
C20_IndentedBeforeCompact ==
    PreparedOnPacket =>
        LET n == Len(LocatedPacket.body)
            indented == events_to_vec(events, TRUE)
            compact == events_to_vec(events, FALSE)
        IN  /\ (indented.ok /\ Len(indented.out) <= n - 2) =>
                   prepared = PrepOk(PacketWith(indented.out))
            /\ (prepared.tag = "ok" /\ prepared.bytes # PacketWith(indented.out)) =>
                   /\ indented.ok
                   /\ Len(indented.out) > n - 2
                   /\ compact.ok
                   /\ Len(compact.out) <= n - 2
                   /\ prepared.bytes = PacketWith(compact.out)

\* both serializations fit and differ, and the buffer holds the indented one
C20_Witness ==
    /\ PreparedOnPacket
    /\ StrategyFits(1, Len(LocatedPacket.body))
    /\ StrategyFits(2, Len(LocatedPacket.body))
    /\ events_to_vec(events, TRUE).out # events_to_vec(events, FALSE).out
    /\ prepared = PrepOk(PacketWith(events_to_vec(events, TRUE).out))

-----------------------------------------------------------------------------
(* Claims about the scanner and the locator *)

\* the offsets >= p at which n occurs in the stream
CandidatesFrom(n, p) == {o \in Occurrences(fileBytes, n) : o >= p}

\* C1: find_needle with a window as long as the needle returns the smallest
\* offset o >= p at which the needle occurs and leaves the stream at o; it
\* returns None only if the needle does not occur at or after p.
C1_FindNeedleFindsFirst ==
    (pc = "ret" /\ bufLen = Len(needle)) =>
        LET occ == CandidatesFrom(needle, scanFrom)
        IN  IF scanRes.found
            THEN /\ occ # {}
                 /\ scanRes.idx = SetMin(occ)
                 /\ pos = scanRes.idx
            ELSE occ = {}

\* a needle found after several reads, at an offset that is no multiple of
\* the window away from the start position
C1_Witness ==
    /\ pc = "ret"
    /\ caller = "user"
    /\ scanRes.found
    /\ scanFrom > 0
    /\ scanRes.idx > scanFrom + bufLen
    /\ (scanRes.idx - scanFrom) % bufLen # 0

\* C2 as claimed: a located range [s, e) starts with `<?xpacket begin=`, ends
\* with `?>`, is not empty and lies within the stream.
C2_RangeStartsWithHeaderLiteral ==
    (pc = "opened" /\ span.some) =>
        /\ OccursAt(fileBytes, XPACKET_BEGIN \o <<61>>, span.start)
        /\ span.end >= 2
        /\ Slice(fileBytes, span.end - 2, span.end) = BOUND_MARKER
        /\ span.start < span.end
        /\ span.end <= Len(fileBytes)

\* C2 amended: a located range [s, e) starts with the 15 bytes
\* `<?xpacket begin` that open searches for (the byte after them is not
\* checked), ends with `?>`, is not empty and lies within the stream.
C2_RangeDelimited ==
    (pc = "opened" /\ span.some) =>
        /\ OccursAt(fileBytes, XPACKET_BEGIN, span.start)
        /\ span.end >= 2
        /\ Slice(fileBytes, span.end - 2, span.end) = BOUND_MARKER
        /\ span.start < span.end
        /\ span.end <= Len(fileBytes)

\* a packet located behind leading host bytes
C2_Witness ==
    /\ pc = "opened"
    /\ span.some
    /\ span.start > 0

-----------------------------------------------------------------------------
(* The splitter on byte strings built from marker fragments *)

MaxSplitFrags == 4

SplitFragments ==
    { XPACKET_HEADER \o BOUND_MARKER, XPACKET_HEADER, XPACKET_BEGIN \o BOUND_MARKER,
      FOOTER_DQ, FOOTER_SQ, <<62>>, <<10>>, <<120>> }

SplitInputs == ConcatsUpTo(SplitFragments, MaxSplitFrags)

InitSplit ==
    /\ fileBytes \in SplitInputs
    /\ pos = 0
    /\ pc = "idle"
    /\ needle = BOUND_MARKER
    /\ bufLen = Len(BOUND_MARKER)
    /\ scanFrom = 0
    /\ scanRes = NoRes
    /\ caller = "user"
    /\ start = 0
    /\ span = NoSpan
    /\ packet = NoPacket
    /\ kind = "none"
    /\ events = <<>>
    /\ prepared = NoPrep
    /\ wbuf = <<>>
    /\ wres = "none"
    /\ origBytes = fileBytes
    /\ NoDocument
    /\ NoService
    /\ NoLoop
    /\ NoTags

NextSplit == Split

SpecSplit == InitSplit /\ [][NextSplit]_vars

\* C3 as claimed: for an accepted input the three spans make up the input,
\* the header ends with the first `>`, and the footer begins at the lowest
\* offset at which either end-marker literal occurs.
C3_FooterAtLowestMarker ==
    (pc = "split" /\ packet.tag = "ok") =>
        /\ packet.header \o packet.body \o packet.footer = fileBytes
        /\ Len(packet.header) = memchr(62, fileBytes) + 1
        /\ Len(packet.header) + Len(packet.body)
               = FindFooterLowest(StripNewline(fileBytes))

\* C3 amended, its first part: for an accepted input the three spans make up the input, the
\* header ends with the first `>`, and the footer begins at the first
\* occurrence of the double-quoted literal when the input holds one, else at
\* the first occurrence of the single-quoted literal.
C3_SplitSpans ==
    (pc = "split" /\ packet.tag = "ok") =>
        LET value == StripNewline(fileBytes)
            footerAt == Len(packet.header) + Len(packet.body)
        IN  /\ packet.header \o packet.body \o packet.footer = fileBytes
            /\ Len(packet.header) = memchr(62, fileBytes) + 1
            /\ packet.header[Len(packet.header)] = 62
            /\ IF Occurrences(value, FOOTER_DQ) # {}
               THEN footerAt = SetMin(Occurrences(value, FOOTER_DQ))
               ELSE /\ Occurrences(value, FOOTER_SQ) # {}
                    /\ footerAt = SetMin(Occurrences(value, FOOTER_SQ))

\* C3, its last part: a packet as the locator delimits it, which starts
\* with `<?xpacket begin=`, closes its header with `>` and ends with its only
\* end marker literal, is accepted.
C3_WellFormedAccepted ==
    (/\ pc = "split"
     /\ StartsWith(fileBytes, XPACKET_HEADER)
     /\ \E f \in {FOOTER_DQ, FOOTER_SQ} :
            /\ EndsWith(fileBytes, f)
            /\ Occurrences(fileBytes, FOOTER_DQ) \cup Occurrences(fileBytes, FOOTER_SQ)
                   = {Len(fileBytes) - Len(f)}
            /\ memchr(62, fileBytes) + 1 <= Len(fileBytes) - Len(f))
        => packet.tag = "ok"

\* C3 amended, both parts
C3_Split == C3_SplitSpans /\ C3_WellFormedAccepted

\* an accepted input with a body, a single-quoted footer and a newline
\* after it
C3_Witness ==
    /\ pc = "split"
    /\ packet.tag = "ok"
    /\ packet.header = XPACKET_HEADER \o BOUND_MARKER
    /\ Len(packet.body) > 0
    /\ packet.footer = FOOTER_SQ \o <<10>>

\* C4: the split fails with MissingHeader exactly when the stripped bytes do
\* not start with `<?xpacket begin=`, and otherwise with MissingFooter
\* exactly when they hold neither end-marker literal.
C4_SplitErrors ==
    (pc = "split") =>
        LET value == StripNewline(fileBytes)
            headed == StartsWith(value, XPACKET_HEADER)
            footed == \/ Occurrences(value, FOOTER_DQ) # {}
                      \/ Occurrences(value, FOOTER_SQ) # {}
        IN  /\ (packet.tag = "err" /\ packet.err = "MissingHeader") <=> ~headed
            /\ (packet.tag = "err" /\ packet.err = "MissingFooter")
                   <=> (headed /\ ~footed)

\* an input with a footer and no header fails with MissingHeader
C4_Witness ==
    /\ pc = "split"
    /\ packet.tag = "err"
    /\ packet.err = "MissingHeader"
    /\ Occurrences(fileBytes, FOOTER_DQ) # {}

-----------------------------------------------------------------------------
(* Claims about the rewrite engine *)

\* evts holds the start of an rdf:Description
HasDescription(evts) ==
    \E i \in 1..Len(evts) : IsStart(evts[i]) /\ IsDescription(evts[i].name)

\* no start event of evts has the identity of the rule, as its name or as
\* the name of one of its attributes
FieldAbsent(evts, rule) ==
    \A i \in 1..Len(evts) :
        IsStart(evts[i]) =>
            /\ ~RuleMatches(rule, evts[i].name)
            /\ \A a \in 1..Len(evts[i].attributes) :
                   ~RuleMatches(rule, evts[i].attributes[a].name)

\* sub is a run of consecutive events of evts
ContainsRun(evts, sub) ==
    \E k \in 0..(Len(evts) - Len(sub)) : SubSeq(evts, k + 1, k + Len(sub)) = sub

\* evts holds the element the rule renders from no input
RenderedFromNothing(evts, rule) ==
    \E now \in Timestamps : ContainsRun(evts, RuleRun(rule, <<>>, now))

\* no later rule of rs has the identity of its i-th rule
LastOfIdentity(rs, i) ==
    \A j \in 1..Len(rs) : j > i => RuleKey(rs[j]) # RuleKey(rs[i])

\* the start events of evts named by the identity of the rule
StartsOf(evts, rule) ==
    {i \in 1..Len(evts) : IsStart(evts[i]) /\ RuleMatches(rule, evts[i].name)}

RECURSIVE Nested(_, _)
\* every end event of evts closes the element opened last and still open,
\* and none is left open; stack holds the names of the open elements
Nested(evts, stack) ==
    IF evts = <<>> THEN stack = <<>>
    ELSE IF IsStart(evts[1]) THEN Nested(Tail(evts), <<evts[1].name>> \o stack)
    ELSE IF IsEnd(evts[1])
    THEN /\ stack # <<>>
         /\ stack[1] = evts[1].name
         /\ Nested(Tail(evts), Tail(stack))
    ELSE Nested(Tail(evts), stack)

WellNested(evts) == Nested(evts, <<>>)

\* the texts of the first element of evts with the identity of the rule
FieldValues(evts, rule) ==
    LET IsField(evt) == RuleMatches(rule, evt.name)
        IsFieldStart(evt) == IsStart(evt) /\ IsField(evt)
        i == FirstIndex({h \in 1..Len(evts) : IsFieldStart(evts[h])})
        rest == IF i = 0 THEN <<>> ELSE SubSeq(evts, i, Len(evts))
        IsFieldEnd(evt) == IsEnd(evt) /\ IsField(evt)
        j == FirstIndex({h \in 1..Len(rest) : IsFieldEnd(rest[h])})
    IN  TextsOf(IF j = 0 THEN rest ELSE SubSeq(rest, 1, j - 1))

\* C8 as claimed: for every parsed document and every rule set, a required
\* rule whose field is absent from the document (no matching attribute, no
\* matching element) has its element, rendered by its action, in the output
\* of write_events.
C8_RequiredAbsentRendered ==
    (pc = "rewritten" /\ out1.ok) =>
        \A i \in 1..Len(ruleset) :
            (ruleset[i].required /\ FieldAbsent(doc, ruleset[i]))
                => RenderedFromNothing(out1.evts, ruleset[i])

\* C8 amended: for every parsed document that holds an rdf:Description
\* element and every rule set, a required rule that no later rule of the set
\* shares its identity with, and whose field is absent from the document, has
\* its element, rendered by its action from no input, in the events
\* write_events returns.
C8_RequiredAbsentRenderedInDescription ==
    (pc = "rewritten" /\ out1.ok /\ HasDescription(doc)) =>
        \A i \in 1..Len(ruleset) :
            (/\ ruleset[i].required
             /\ LastOfIdentity(ruleset, i)
             /\ FieldAbsent(doc, ruleset[i]))
                => RenderedFromNothing(out1.evts, ruleset[i])

\* a document with a description and no title or date is rewritten with two
\* required rules, and both elements are in the output
C8_Witness ==
    /\ pc = "rewritten"
    /\ out1.ok
    /\ HasDescription(doc)
    /\ Len(ruleset) = 2
    /\ \A i \in 1..2 :
           /\ ruleset[i].required
           /\ LastOfIdentity(ruleset, i)
           /\ FieldAbsent(doc, ruleset[i])
           /\ RenderedFromNothing(out1.evts, ruleset[i])

\* the rewrite ran twice with one SetRdfList rule
RewrittenTwiceWithList ==
    /\ pc = "rewritten2"
    /\ Len(ruleset) = 1
    /\ ruleset[1].action = "SetRdfList"

AcdseeFields == {"caption"}

\* C10 as claimed: every scalar field (attribute or child form) and every bag
\* field read from the output of write_events(doc, []) equals the value read
\* from the document.
C10_EmptyRulesKeepFields ==
    (pc = "rewritten" /\ ruleset = <<>>) =>
        /\ out1.ok
        /\ \A f \in AcdseeFields :
               /\ acdsee_attr_value(out1.evts, f) = acdsee_attr_value(doc, f)
               /\ acdsee_tag_value(out1.evts, f) = acdsee_tag_value(doc, f)
               /\ acdsee_bag_value(out1.evts, f) = acdsee_bag_value(doc, f)

\* the positions of the rdf:Description starts of evts that carry the
\* attribute acdsee:f
AttributeCarriers(evts, f) ==
    {i \in 1..Len(evts) :
        /\ IsStart(evts[i])
        /\ IsDescription(evts[i].name)
        /\ \E a \in 1..Len(evts[i].attributes) :
               evts[i].attributes[a].name = QName(ACDSEE, f, "acdsee")}

\* the values of the attribute acdsee:f on the start event at position i
AttributeValuesAt(evts, f, i) ==
    {evts[i].attributes[a].value :
        a \in {b \in 1..Len(evts[i].attributes) :
                  evts[i].attributes[b].name = QName(ACDSEE, f, "acdsee")}}

\* the texts that directly follow a start of the element acdsee:f
ChildTexts(evts, f) ==
    {evts[i + 1].text :
        i \in {j \in 1..(Len(evts) - 1) :
                  /\ IsStart(evts[j])
                  /\ evts[j].name = QName(ACDSEE, f, "acdsee")
                  /\ evts[j + 1].type = "Characters"}}

\* C16: for every document in which a scalar field exists both as an
\* attribute of a description element and as a child element,
\* acdsee_tag_value returns the attribute's value (that of the first
\* description element carrying it); the child element's text is returned
\* only when no description attribute with that identity exists.
C16_AttributeWinsOverElement ==
    (pc = "parsed") =>
        \A f \in AcdseeFields :
            LET r == acdsee_tag_value(doc, f)
                carriers == AttributeCarriers(doc, f)
            IN  IF carriers # {}
                THEN /\ r.some
                     /\ r.value \in AttributeValuesAt(doc, f, SetMin(carriers))
                ELSE r.some => r.value \in ChildTexts(doc, f)

\* a parsed document that holds the field both as a description attribute
\* and as a child element with a text, the element coming first
C16_Witness ==
    /\ pc = "parsed"
    /\ AttributeCarriers(doc, "caption") # {}
    /\ ChildTexts(doc, "caption") # {}
    /\ \E j \in 1..Len(doc) :
           /\ IsStart(doc[j])
           /\ doc[j].name = AcdseeCaption
           /\ j < SetMin(AttributeCarriers(doc, "caption"))
    /\ acdsee_tag_value(doc, "caption").value \in {"c1", "c2"}

-----------------------------------------------------------------------------
(* Claims about the service *)

\* the apply that wrote last found the file modified after the last check,
\* or found no time of a last check
WroteStale == wrote.known = None \/ wrote.modified > wrote.known

\* C11: when the modification time of the file at apply is later than the
\* time the last check recorded, or none was recorded, the buffer apply
\* writes is the one it prepared itself from the contents the file had when
\* it read them again, never the stored one; when the modification time has
\* not advanced, the buffer written is the stored Ready buffer.
C11_StaleBufferNeverWritten ==
    wrote # NoWrite =>
        IF WroteStale
        THEN /\ wrote.reread # None
             /\ wrote.bytes = <<wrote.reread, "apply">>
             /\ wrote.bytes # wrote.stored.bytes
        ELSE /\ wrote.stored.tag = "Ready"
             /\ wrote.bytes = wrote.stored.bytes
             /\ wrote.reread = None

\* a check stored a Ready buffer, another program rewrote the file at a
\* later time, and apply wrote the buffer prepared from the new contents
C11_Witness ==
    /\ wrote # NoWrite
    /\ WroteStale
    /\ wrote.known # None
    /\ wrote.stored.tag = "Ready"
    /\ wrote.bytes[1] # wrote.stored.bytes[1]
    /\ state.tag = "Complete"

(***************************************************************************)
(* Claims about the standalone container                                   *)
(***************************************************************************)

\* C12: for a standalone container prepare_write returns the single indented
\* serialization with no size check, and after Container::open followed by
\* write(bytes) the file holds exactly bytes: its length is Len(bytes) and
\* nothing precedes or follows them, whatever the previous length of the file
\* and the read position.
C12_StandaloneWriteReplacesFile ==
    /\ (pc \in {"prepared", "written"} /\ kind = "Xmp" /\ prepared.tag = "ok") =>
           prepared.bytes = events_to_vec(events, TRUE).out
    /\ (pc = "written" /\ kind = "Xmp") =>
           /\ wres = "ok"
           /\ fileBytes = wbuf

(***************************************************************************)
(* Claims about the scanner with a window of any length                    *)
(***************************************************************************)

\* the stream holds the needle at offset at
NeedleAt(at) ==
    /\ at + Len(needle) <= Len(fileBytes)
    /\ Slice(fileBytes, at, at + Len(needle)) = needle

\* the search of an 8-byte needle with a 4-byte window, the needle starting
\* at offset 2 of a window
StraddlingSearch ==
    /\ pc = "scan"
    /\ Len(needle) = 8
    /\ bufLen = 4
    /\ \E at \in scanFrom..Len(fileBytes) :
           /\ NeedleAt(at)
           /\ (at - scanFrom) % 4 = 2

\* C13: a search of an 8-byte needle with a 4-byte read window terminates and
\* finds a needle that starts at offset 2 of one window and straddles the
\* following reads.
C13_StraddlingNeedleFound ==
    StraddlingSearch ~> (pc = "ret" /\ scanRes.found)

\* C17: on every finite stream, with a window at least as long as the needle,
\* find_needle terminates: every iteration of the loop that does not return
\* moves the stream position forward by at least one byte, a return without a
\* match is the read failure at the end of the stream, and every search
\* returns.
C17_ScannerTerminates ==
    /\ [][(pc = "scan" /\ bufLen >= Len(needle)) =>
             /\ pc' = "scan" => pos' > pos
             /\ (pc' = "ret" /\ ~scanRes'.found) =>
                    /\ pos + bufLen > Len(fileBytes)
                    /\ pos' = Len(fileBytes)]_vars
    /\ (pc = "scan" /\ bufLen >= Len(needle)) ~> (pc = "ret")

\* a search with a window longer than the needle returned "not found" after
\* at least two reads that did not return
C17_Witness ==
    /\ pc = "ret"
    /\ ~scanRes.found
    /\ bufLen > Len(needle)
    /\ pos = Len(fileBytes)
    /\ Len(fileBytes) - scanFrom >= 2 * bufLen

(***************************************************************************)
(* Claims about the header and the body span of the splitter               *)
(***************************************************************************)

HeaderNotTerminated ==
    LET value == StripNewline(fileBytes)
    IN  /\ StartsWith(value, XPACKET_HEADER)
        /\ FindFooter(value) # None
        /\ \A i \in 1..FindFooter(value) : value[i] # 62

\* C18: the splitter fails with MissingHeaderBoundary if no `>` character
\* terminates the header: an input that starts with the begin marker and
\* holds an accepted end marker, with no `>` ahead of it, is refused with
\* MissingHeaderBoundary.
C18_MissingHeaderBoundaryReturned ==
    (pc = "split" /\ HeaderNotTerminated) =>
        /\ packet.tag = "err"
        /\ packet.err = "MissingHeaderBoundary"

\* C19: for every input on which get_offsets returns Ok((body_start,
\* body_end)), body_start <= body_end <= len(input), so that the split into
\* header, body and footer never panics or underflows: the first `>` lies
\* before the start of the footer marker.
C19_BodySpanOrdered ==
    (pc = "split" /\ get_offsets(fileBytes).tag = "ok") =>
        LET off == get_offsets(fileBytes)
        IN  /\ off.body_start <= off.body_end
            /\ off.body_end <= Len(fileBytes)
            /\ memchr(62, fileBytes) < off.body_end
            /\ packet.tag = "ok"

(***************************************************************************)
(* Claims about the locator finding no packet                              *)
(***************************************************************************)

\* the offsets of the begin marker in the file as it was opened
BeginOffsets == Occurrences(origBytes, XPACKET_BEGIN)

\* the offsets of the end-marker prefix at or after the first begin marker
EndOffsets ==
    {o \in Occurrences(origBytes, XPACKET_END) : o >= SetMin(BeginOffsets)}

\* the offsets of `?>` at or after the first such end-marker prefix
BoundOffsets ==
    {o \in Occurrences(origBytes, BOUND_MARKER) : o >= SetMin(EndOffsets)}

NoPacketInFile == BeginOffsets = {} \/ EndOffsets = {} \/ BoundOffsets = {}

RECURSIVE OpenBefore(_, _, _)
\* the names of the elements open before the n-th next event of evts, the
\* innermost first; stack holds those open so far
OpenBefore(evts, n, stack) ==
    IF n <= 1 \/ evts = <<>> THEN stack
    ELSE OpenBefore(Tail(evts), n - 1,
             IF IsStart(evts[1]) THEN <<evts[1].name>> \o stack
             ELSE IF IsEnd(evts[1]) /\ stack # <<>> THEN Tail(stack)
             ELSE stack)

\* the events only a rendering puts out: the start of an rdf list and a
\* timestamp text (no document of the bounds holds them)
IsRendered(evt) ==
    \/ IsStart(evt) /\ evt.name \in {rdf_node("Alt"), rdf_node("Seq"), rdf_node("Bag")}
    \/ evt.type = "Characters" /\ evt.text \in Timestamps

\* C21: the rewrite matches only direct children of the top-level
\* description: wherever the output holds a rendering, the rendered element
\* is a direct child of an rdf:Description; an element of the identity of a
\* rule that is nested inside another child is copied as it is and does not
\* consume the rule.
C21_RenderedOnlyAsDirectChild ==
    (pc = "rewritten" /\ out1.ok) =>
        \A i \in 1..Len(out1.evts) :
            IsRendered(out1.evts[i]) =>
                LET parents == OpenBefore(out1.evts, i, <<>>)
                IN  /\ Len(parents) >= 2
                    /\ IsDescription(parents[2])

\* the rules of the set that allow attributes and match an attribute of a
\* top-level description of the document
AttributeModeRules ==
    {r \in 1..Len(ruleset) :
        /\ ruleset[r].allow_attribute
        /\ \E a \in 1..Len(AllAttributes(doc, 0, <<>>)) :
               RuleMatches(ruleset[r], AllAttributes(doc, 0, <<>>)[a].name)}

\* the first rdf:Description start of the output: the synthetic start event
SyntheticStart ==
    out1.evts[SetMin({i \in 1..Len(out1.evts) :
                         IsStart(out1.evts[i]) /\ IsDescription(out1.evts[i].name)})]

\* the synthetic start event carries the attributes of the top-level
\* descriptions, the first of them that the rule matches with a timestamp
\* for value, and no element is rendered for the rule
AttributeRewritten(r) ==
    LET before == AllAttributes(doc, 0, <<>>)
        after == SyntheticStart.attributes
        first == SetMin({a \in 1..Len(before) :
                            RuleMatches(ruleset[r], before[a].name)})
    IN  /\ Len(after) = Len(before)
        /\ \A a \in 1..Len(before) : after[a].name = before[a].name
        /\ after[first].value \in Timestamps
        /\ StartsOf(out1.evts, ruleset[r]) = {}
        /\ \A i \in 1..Len(out1.evts) : ~IsRendered(out1.evts[i]) \/ IsStart(out1.evts[i])

\* C22: if an attribute-capable rule matches an attribute of a top-level
\* description, the synthetic start event carries that attribute with the
\* value the action renders for attributes, the prefix of the rule is bound
\* on the synthetic start event, the rule is removed, and no child element
\* is emitted for the rule, neither in place of an element nor before the
\* end of the description.
C22_AttributeModeRewrite ==
    (pc = "rewritten" /\ out1.ok) =>
        \A r \in AttributeModeRules :
            /\ AttributeRewritten(r)
            /\ <<ruleset[r].node_prefix, ruleset[r].node_namespace>>
                   \in SyntheticStart.namespace

\* the number of rdf:Description elements open before the i-th event of evts
DescriptionLevel(evts, i) ==
    LET parents == OpenBefore(evts, i, <<>>)
    IN  Cardinality({k \in 1..Len(parents) : IsDescription(parents[k])})

\* the positions of the starts of the top-level descriptions of evts
TopStarts(evts) ==
    {i \in 1..Len(evts) :
        /\ IsStart(evts[i])
        /\ IsDescription(evts[i].name)
        /\ DescriptionLevel(evts, i) = 0}

\* the positions of the ends of the top-level descriptions of evts
TopEnds(evts) ==
    {i \in 1..Len(evts) :
        /\ IsEnd(evts[i])
        /\ IsDescription(evts[i].name)
        /\ DescriptionLevel(evts, i) = 1}

\* the document holds top-level descriptions, and each but the last is
\* directly followed by the next
AdjacentDescriptions ==
    /\ TopStarts(doc) # {}
    /\ \A e \in TopEnds(doc) :
           (\E f \in TopEnds(doc) : f > e) => (e + 1) \in TopStarts(doc)

RECURSIVE AttributesAt(_, _, _)
\* the attributes of the start events of evts at the positions at, in order
AttributesAt(evts, at, i) ==
    IF i > Len(evts) THEN <<>>
    ELSE (IF i \in at THEN evts[i].attributes ELSE <<>>)
             \o AttributesAt(evts, at, i + 1)

\* the names of a list of attributes
AttributeNames(attributes) ==
    [a \in 1..Len(attributes) |-> attributes[a].name]

\* the document without its first event (the start of the document), the
\* top-level descriptions made one: the first start carries the attributes
\* and the bindings of all, the later starts and all ends but the last are
\* left out
MergedDocument ==
    LET starts == TopStarts(doc)
        ends == TopEnds(doc)
        Kept(i) == /\ i > 1
                   /\ i \in starts => i = SetMin(starts)
                   /\ i \in ends => \A f \in ends : f <= i
        merged == [i \in 1..Len(doc) |->
                      IF i = SetMin(starts)
                      THEN StartElement(doc[i].name,
                               AttributesAt(doc, starts, 1),
                               UNION {doc[k].namespace : k \in starts})
                      ELSE doc[i]]
        keep == {i \in 1..Len(doc) : Kept(i)}
        RECURSIVE Pick(_)
        Pick(i) == IF i > Len(doc) THEN <<>>
                   ELSE (IF i \in keep THEN <<merged[i]>> ELSE <<>>) \o Pick(i + 1)
    IN  Pick(1)

\* two event lists that differ at most in the bindings of the event at s
SameButBindings(a, b, s) ==
    /\ Len(a) = Len(b)
    /\ \A i \in 1..Len(a) :
           IF i = s THEN [a[i] EXCEPT !.namespace = {}] = [b[i] EXCEPT !.namespace = {}]
           ELSE a[i] = b[i]

\* the positions at which the element the rule renders from no input starts
\* in evts
FlushedAt(evts, rule) ==
    {k \in 1..Len(evts) :
        \E now \in Timestamps :
            LET run == RuleRun(rule, <<>>, now)
            IN  /\ k + Len(run) - 1 <= Len(evts)
                /\ SubSeq(evts, k, k + Len(run) - 1) = run}

ContinuedEnds == {e \in TopEnds(doc) : (e + 1) \in TopStarts(doc)}

\* the position in the document at which the description closes: the first
\* end of a top-level description that no description start follows directly
CloseAt == SetMin(TopEnds(doc) \ ContinuedEnds)

\* the rule rewrote an attribute of a top-level description
RewroteAttribute(rule) ==
    /\ rule.allow_attribute
    /\ \E k \in TopStarts(doc) : \E a \in 1..Len(doc[k].attributes) :
           RuleMatches(rule, doc[k].attributes[a].name)

\* the rule replaced an element before the description closed
ReplacedElement(rule) ==
    \E i \in 1..CloseAt :
        /\ IsStart(doc[i])
        /\ RuleMatches(rule, doc[i].name)
        /\ DescriptionLevel(doc, i) = 1

\* the r-th rule is still to be applied when the description closes
Unconsumed(r) ==
    /\ ~RewroteAttribute(ruleset[r])
    /\ ~ReplacedElement(ruleset[r])

\* the length of the element the rule renders from no input
FlushedLen(rule) ==
    Len(RuleRun(rule, <<>>, CHOOSE now \in Timestamps : TRUE))

\* the closing step seen in the output, e the position of the end event of
\* the description and starts the positions at which the elements rendered by
\* the rules of flushed start: each flushed rule is rendered once, before e,
\* and what follows its element is the element of another flushed rule or
\* the end event; the other unconsumed rules render nothing; the end event
\* of the document is in the output once, followed by the event that follows
\* it in the document
ClosingStepAt(flushed, e, starts) ==
    /\ \A r \in flushed :
           LET at == FlushedAt(out1.evts, ruleset[r])
           IN  /\ Cardinality(at) = 1
               /\ \A k \in at :
                      LET next == k + FlushedLen(ruleset[r])
                      IN  next = e \/ next \in starts
    /\ \A r \in 1..Len(ruleset) :
           (Unconsumed(r) /\ r \notin flushed)
               => FlushedAt(out1.evts, ruleset[r]) = {}
    /\ out1.evts[e] = doc[CloseAt]
    /\ e < Len(out1.evts)
    /\ out1.evts[e + 1] = doc[CloseAt + 1]

\* what the closing step does with the rules of the set flushed, the other
\* unconsumed rules being left out
ClosingStep(flushed) ==
    LET ends == TopEnds(out1.evts)
    IN  /\ ends # {}
        /\ ClosingStepAt(flushed, SetMin(ends),
               UNION {FlushedAt(out1.evts, ruleset[r]) : r \in flushed})

\* C24 as claimed: when the top-level description closes, each rule still
\* unconsumed and required is rendered exactly once from no input, after
\* every child of the description and directly before its end event; the
\* unconsumed rules that are not required produce nothing; the end event held
\* back is emitted exactly once.
C24_ClosingStepAllUnconsumed ==
    (pc = "rewritten" /\ out1.ok /\ TopStarts(doc) # {}) =>
        ClosingStep({r \in 1..Len(ruleset) :
                        ruleset[r].required /\ Unconsumed(r)})

\* C24 amended: the same for each required unconsumed rule that no later rule
\* of the set shares its identity with; an earlier rule of the same identity
\* produces nothing.
C24_ClosingStepLastOfIdentity ==
    (pc = "rewritten" /\ out1.ok /\ TopStarts(doc) # {}) =>
        ClosingStep({r \in 1..Len(ruleset) :
                        /\ ruleset[r].required
                        /\ LastOfIdentity(ruleset, r)
                        /\ Unconsumed(r)})

\* a description with a child and no title or date was closed with two
\* required rules of different identities: both elements are rendered once,
\* and the end event of the description is in the output
C24_Witness ==
    /\ pc = "rewritten"
    /\ out1.ok
    /\ TopStarts(doc) # {}
    /\ ~IsEnd(doc[SetMin(TopStarts(doc)) + 1])
    /\ Len(ruleset) = 2
    /\ \A r \in 1..2 :
           /\ ruleset[r].required
           /\ LastOfIdentity(ruleset, r)
           /\ Unconsumed(r)
           /\ Cardinality(FlushedAt(out1.evts, ruleset[r])) = 1
    /\ out1.evts[SetMin(TopEnds(out1.evts))] = doc[CloseAt]

\* the events of evts after position i
EventsAfter(evts, i) == SubSeq(evts, i + 1, Len(evts))

\* C25: once the description has closed (its end event is in the output and
\* other content has resumed), every remaining event of the document is
\* copied to the output unchanged and in order: what follows the end event of
\* the description in the output is what follows it in the document.
C25_RemainderCopied ==
    (pc = "rewritten" /\ out1.ok /\ TopStarts(doc) # {}) =>
        /\ TopEnds(out1.evts) # {}
        /\ EventsAfter(out1.evts, SetMin(TopEnds(out1.evts)))
               = EventsAfter(doc, CloseAt)

\* no rule of the set matches an attribute or an element of the document,
\* and none is required
RulesTouchNothing ==
    \A r \in 1..Len(ruleset) :
        ~ruleset[r].required /\ FieldAbsent(doc, ruleset[r])

\* the event was copied from the document, not rendered by a rule: a start
\* event with the bindings of a parsed element, or a text of the document
IsCopied(evt) ==
    \/ IsStart(evt) /\ evt.namespace # {}
    \/ evt.type = "Characters" /\ evt.text \in Texts

\* the names of the start events and the texts that are copies, in order
CopiedOf(evts) ==
    LET copied == SelectSeq(evts, IsCopied)
    IN  [i \in 1..Len(copied) |->
            IF IsStart(copied[i]) THEN <<"start", copied[i].name>>
            ELSE <<"text", copied[i].text>>]

RECURSIVE IsSubsequence(_, _)
\* a can be had from b by leaving elements out
IsSubsequence(a, b) ==
    IF a = <<>> THEN TRUE
    ELSE IF b = <<>> THEN FALSE
    ELSE IF a[1] = b[1] THEN IsSubsequence(Tail(a), Tail(b))
    ELSE IsSubsequence(a, Tail(b))

\* C26: for a document with a single top-level description and a rule set
\* none of whose rules matches an attribute or element and none of which is
\* required, the output of write_events is the input event sequence without
\* its document-start event; and for every document and rule set the events
\* copied to the output are in the order they have in the document.
C26_UntouchedRoundTrip ==
    (pc = "rewritten" /\ out1.ok) =>
        /\ (Cardinality(TopStarts(doc)) = 1 /\ RulesTouchNothing)
               => out1.evts = Tail(doc)
        /\ IsSubsequence(CopiedOf(out1.evts), CopiedOf(doc))

\* C27: for every well-nested document that ends with the end-of-document
\* event, documents with several top-level descriptions separated by other
\* content included, and every rule set, the output of write_events is
\* well-nested: every end event closes the most recent unclosed start event
\* of the same name, and no start event is left unclosed.
C27_RewriteKeepsNesting ==
    (pc = "rewritten" /\ out1.ok /\ WellNested(doc)) => WellNested(out1.evts)

\* evts carries the metadata date with the timestamp of a rewrite: as an
\* attribute of a start event, or as an element whose text it is
CarriesCurrentDate(evts) ==
    \E i \in 1..Len(evts) :
        /\ IsStart(evts[i])
        /\ \/ \E a \in 1..Len(evts[i].attributes) :
                  /\ RuleMatches(xmp_metadata_date, evts[i].attributes[a].name)
                  /\ evts[i].attributes[a].value \in Timestamps
           \/ /\ RuleMatches(xmp_metadata_date, evts[i].name)
              /\ i < Len(evts)
              /\ evts[i + 1].type = "Characters"
              /\ evts[i + 1].text \in Timestamps

\* C28: for every document with a description element, the output of
\* write_events with the rule set built for a file (the rules of to_ruleset,
\* then xmp_metadata_date) carries an xmp:MetadataDate attribute or child
\* element holding the current timestamp, whether or not the input had one.
C28_MetadataDateRefreshed ==
    (pc = "rewritten" /\ out1.ok /\ HasDescription(doc) /\ ruleset = FileRules)
        => CarriesCurrentDate(out1.evts)

-----------------------------------------------------------------------------
(* Claims about the field accessors on child elements *)

\* the positions of the start events of the element acdsee:f
FieldStarts(evts, f) ==
    {i \in 1..Len(evts) :
        /\ IsStart(evts[i])
        /\ evts[i].name.ns = ACDSEE
        /\ evts[i].name.local = f}

\* C29: when no attribute matches and the first start event of the requested
\* identity is directly followed by a text event, acdsee_tag_value returns
\* that text; when it is directly followed by an end event, it returns the
\* empty string (field present, empty); with any other following event, or
\* no such start event, the field is absent.
C29_ScalarByChildElement ==
    (pc = "parsed") =>
        \A f \in AcdseeFields :
            (AttributeCarriers(doc, f) = {}) =>
                LET r == acdsee_tag_value(doc, f)
                    starts == FieldStarts(doc, f)
                    next == doc[SetMin(starts) + 1]
                IN  IF starts = {} THEN r = NoValue
                    ELSE IF next.type = "Characters" THEN r = SomeValue(next.text)
                    ELSE IF IsEnd(next) THEN r = SomeValue("")
                    ELSE r = NoValue

\* C30: acdsee_bag_value returns, in document order, exactly the texts
\* between the first start event of the requested identity and its matching
\* end event at the same nesting depth (an end event of the same name that
\* belongs to a nested element does not end the collection), and the empty
\* list when there is no such start event.
C30_BagUpToMatchingEnd ==
    (pc = "parsed") =>
        \A f \in AcdseeFields :
            LET starts == FieldStarts(doc, f)
                first == SetMin(starts)
            IN  acdsee_bag_value(doc, f)
                    = IF starts = {} THEN <<>>
                      ELSE TextsOf(SubSeq(doc, first, SubtreeEnd(doc, first, 1)))

-----------------------------------------------------------------------------
(* Claims about rule failures and the rule map *)

\* the r-th rule is handed an attribute its action cannot render: it allows
\* attributes, an attribute of a top-level description has its identity, and
\* its action has no attribute renderer
RejectsAttribute(r) ==
    /\ ruleset[r].allow_attribute
    /\ ruleset[r].action # "SetToCurrentDateTime"
    /\ \E k \in TopStarts(doc) : \E a \in 1..Len(doc[k].attributes) :
           RuleMatches(ruleset[r], doc[k].attributes[a].name)

\* the rules of the set whose action rejects its input
RejectingRules == {r \in 1..Len(ruleset) : RejectsAttribute(r)}

\* C31: write_events returns RuleFailed with the identity of the field if
\* and only if the action of a rule rejects its input (an attribute-capable
\* rule matches an attribute of a description and its action has no
\* attribute renderer; no element rendering fails); then no event sequence
\* is returned; with rules whose actions accept every input write_events
\* succeeds.
C31_RuleFailedIffRejected ==
    (pc = "rewritten") =>
        /\ ~out1.ok <=> RejectingRules # {}
        /\ ~out1.ok =>
               /\ out1.evts = <<>>
               /\ <<out1.failed.ns, out1.failed.local>>
                      = RuleKey(ruleset[SetMin(RejectingRules)])
        /\ out1.ok => out1.failed = NoName /\ out1.evts # <<>>

\* a rule with a list action that allows attributes met the attribute of its
\* identity, and the rewrite failed with that identity
C31_Witness ==
    /\ pc = "rewritten"
    /\ ~out1.ok
    /\ RejectingRules # {}
    /\ out1.failed.local = "MetadataDate"
    /\ out1.evts = <<>>

\* the starts of the elements of the rule's identity that a rule rendered:
\* a rendered start event has no bindings, a parsed one has some
RenderedStarts(evts, rule) ==
    {i \in StartsOf(evts, rule) : evts[i].namespace = {}}

\* the starts of the elements of the rule's identity copied from the document
CopiedStarts(evts, rule) ==
    {i \in StartsOf(evts, rule) : evts[i].namespace # {}}

\* the positions of the document taken by the element the rule replaces: from
\* the first start of its identity met at description level 1 before the
\* description closes, to the matching end; none when the rule replaces
\* nothing
ReplacedSpan(rule) ==
    IF TopStarts(doc) = {} \/ RewroteAttribute(rule) \/ ~ReplacedElement(rule)
    THEN {}
    ELSE LET first == SetMin({i \in StartsOf(doc, rule) :
                                 DescriptionLevel(doc, i) = 1})
         IN  first..SubtreeEnd(doc, first, 1)

\* C32: each rule is consumed at most once and at most one rule per
\* (namespace, local name) key is active: the output holds at most one
\* element rendered for a key, also when the rule list holds two element
\* rules of that key; a rule that rewrote an attribute renders no element;
\* after a rule replaced an element, the later elements of its identity are
\* copied and the rule is not appended as a required field as well.
C32_OneRulePerKeyOnce ==
    (pc = "rewritten" /\ out1.ok) =>
        \A r \in 1..Len(ruleset) :
            LET rule == ruleset[r]
                rendered == RenderedStarts(out1.evts, rule)
                Alone == \A q \in 1..Len(ruleset) :
                             RuleKey(ruleset[q]) = RuleKey(rule) => q = r
            IN  /\ Cardinality(rendered) <= 1
                /\ (RewroteAttribute(rule) /\ Alone) => rendered = {}
                /\ ReplacedSpan(rule) # {} => Cardinality(rendered) = 1
                /\ Cardinality(CopiedStarts(out1.evts, rule))
                       = Cardinality(StartsOf(doc, rule) \ ReplacedSpan(rule))

\* a description with two title elements was rewritten with two required
\* title rules: one element is rendered, the second title is copied
C32_Witness ==
    /\ pc = "rewritten"
    /\ out1.ok
    /\ Len(ruleset) = 2
    /\ RuleKey(ruleset[1]) = RuleKey(ruleset[2])
    /\ ReplacedSpan(ruleset[2]) # {}
    /\ Cardinality(StartsOf(doc, ruleset[2]) \ ReplacedSpan(ruleset[2])) = 1
    /\ Cardinality(RenderedStarts(out1.evts, ruleset[2])) = 1
    /\ Cardinality(CopiedStarts(out1.evts, ruleset[2])) = 1

-----------------------------------------------------------------------------
(* svc/state.rs, svc.rs: the service loop and its background tasks *)

\* MetadataFile
MetadataFile(path, last_check_, state_) ==
    [path |-> path, last_check |-> last_check_, state |-> state_]

\* MetadataFile::try_from(path)
NewFile(path) == MetadataFile(path, None, FileState("Init"))

\* a task that names the slot after the one of its file
BackgroundTaskNextSlot(kind_, index, file) ==
    [kind |-> kind_, index |-> index + 1, file |-> file]

\* BackgroundTask::TryRewrite, BackgroundTask::Apply
BackgroundTask(kind_, index, file) == [kind |-> kind_, index |-> index, file |-> file]

\* Event::Added, Event::Changed
Event(kind_, start_, files_) == [kind |-> kind_, start |-> start_, files |-> files_]

\* a message to the UI that carries events; snap is the files vector of the
\* service when it was sent, kept for the comparison with the list of the
\* UI. The messages AddPathsComplete and ProgressUpdate, which leave the
\* list alone, are not kept
Message(kind_, events_, snap) == [kind |-> kind_, events |-> events_, snap |-> snap]

\* MetadataFile::check_rewrite: the file as checked; io_ok tells whether the
\* file opened and gave its modification time, data is what it holds
check_rewrite(file, io_ok, data, modified) ==
    IF io_ok
    THEN MetadataFile(file.path, modified, get_rewrite_state(data, "check"))
    ELSE MetadataFile(file.path, None, FileState("IoError"))

\* an apply that writes whatever state it found
apply_always_writes(file, io_ok, data, modified, backup_ok, open_ok, write_ok) ==
    [file |-> MetadataFile(file.path, modified,
                  FileState(IF write_ok THEN "Complete" ELSE "ApplyError")),
     eff |-> IF IsStale(file.last_check, modified)
             THEN get_rewrite_state(data, "apply")
             ELSE file.state,
     wrote |-> TRUE]

\* MetadataFile::apply: the file as applied, the state get_apply_state
\* matched, and whether Container::write was called
apply(file, io_ok, data, modified, backup_ok, open_ok, write_ok) ==
    LET eff == IF IsStale(file.last_check, modified)
               THEN get_rewrite_state(data, "apply")
               ELSE file.state
        Result(state_, wrote_) ==
            [file |-> MetadataFile(file.path, modified, state_),
             eff |-> eff, wrote |-> wrote_]
    IN  IF ~io_ok
        THEN [file |-> MetadataFile(file.path, None, FileState("IoError")),
              eff |-> FileState("none"), wrote |-> FALSE]
        ELSE IF eff.tag # "Ready" THEN Result(eff, FALSE)
        ELSE IF ~backup_ok THEN Result(FileState("BackupError"), FALSE)
        ELSE IF ~open_ok THEN Result(FileState("ContainerError"), FALSE)
        ELSE Result(FileState(IF write_ok THEN "Complete" ELSE "ApplyError"), TRUE)

RECURSIVE AddResults(_, _)
\* add_files, the loop over the results: the files pushed and the tasks
\* queued for the results that are Ok; st holds files, added, pending_tasks
AddResults(results, st) ==
    IF results = <<>> THEN st
    ELSE IF results[1] = "err" THEN AddResults(Tail(results), st)
    ELSE LET file == NewFile(results[1])
             pushed == Append(st.files, file)
         IN  AddResults(Tail(results),
                 [files |-> pushed,
                  added |-> Append(st.added, file),
                  pending_tasks |-> Append(st.pending_tasks,
                      BackgroundTask("TryRewrite", Len(pushed) - 1, file))])

\* start_apply: the Apply tasks it queues, one for each file that is Ready,
\* in the order of the files
start_apply_tasks(fs) ==
    LET IsReady(t) == t.file.state.tag = "Ready"
    IN  SelectSeq([i \in 1..Len(fs) |-> BackgroundTask("Apply", i - 1, fs[i])],
                  IsReady)

\* the end of an iteration of the loop of Service::run: drain_events, and
\* the events, if any, are sent to the UI
Drained(evts, snap) ==
    IF evts = <<>> THEN <<>> ELSE <<Message("FileStateUpdate", evts, snap)>>

\* the most files the requests add, the most requests a handle sends
MaxFiles == 2

MaxRequests == 2

\* the paths of the files, and the modification times they are found with
Paths == {"a", "b"}

Mtimes == {0, 1}

\* the results of a request OpenPaths: a path for a result that is Ok,
\* "err" for one that is not
PathResults ==
    LET r == Paths \cup {"err"}
    IN  {<<x>> : x \in r} \cup {<<x, y>> : x \in r, y \in r}

\* Request::OpenPaths, and the request the UI sends to apply
Requests ==
    {[kind |-> "OpenPaths", results |-> rs] : rs \in PathResults}
        \cup {[kind |-> "Apply", results |-> <<>>]}

\* the results that are Ok
OkResults(results) == SelectSeq(results, LAMBDA x : x # "err")

RECURSIVE QueuedFiles(_)
\* the files the requests of a queue are going to add
QueuedFiles(q) ==
    IF q = <<>> THEN 0 ELSE Len(OkResults(q[1].results)) + QueuedFiles(Tail(q))

\* ServiceHandle::send_request
SendRequest(request) ==
    /\ pc \in {"select", "task"}
    /\ tx.open
    /\ tx.sent < MaxRequests
    /\ Len(files) + QueuedFiles(rx) + Len(OkResults(request.results)) <= MaxFiles
    /\ rx' = Append(rx, request)
    /\ tx' = [tx EXCEPT !.sent = @ + 1]
    /\ UNCHANGED <<pc, files, file_events, pending_tasks, task, ui, file_list, ran>>

\* Drop for ServiceHandle: the sender is dropped
DropHandle ==
    /\ pc \in {"select", "task"}
    /\ tx.open
    /\ tx' = [tx EXCEPT !.open = FALSE]
    /\ UNCHANGED <<pc, files, file_events, pending_tasks, rx, task, ui, file_list, ran>>

\* Service::run, the select takes rx.recv() with the request OpenPaths: the
\* future of poll_bg is dropped with the task it runs, add_files, and the
\* events are drained
RecvOpenPaths ==
    /\ pc \in {"select", "task"}
    /\ rx # <<>>
    /\ rx[1].kind = "OpenPaths"
    /\ LET st == AddResults(rx[1].results,
                     [files |-> files, added |-> <<>>, pending_tasks |-> pending_tasks])
           evts == IF st.added = <<>> THEN file_events
                   ELSE Append(file_events, Event("Added", Len(files), st.added))
       IN  /\ files' = st.files
           /\ pending_tasks' = st.pending_tasks
           /\ ui' = ui \o Drained(evts, st.files)
    /\ file_events' = <<>>
    /\ rx' = Tail(rx)
    /\ task' = NoTask
    /\ ran' = NoRun
    /\ pc' = "select"
    /\ UNCHANGED <<tx, file_list>>

\* Service::run, the select takes rx.recv() with the request to apply: the
\* future of poll_bg is dropped with the task it runs, start_apply, and
\* the events are drained
StartApply ==
    /\ pc \in {"select", "task"}
    /\ rx # <<>>
    /\ rx[1].kind = "Apply"
    /\ pending_tasks' = pending_tasks \o start_apply_tasks(files)
    /\ ui' = ui \o Drained(file_events, files)
    /\ file_events' = <<>>
    /\ rx' = Tail(rx)
    /\ task' = NoTask
    /\ ran' = NoRun
    /\ pc' = "select"
    /\ UNCHANGED <<files, tx, file_list>>

\* a loop that goes on when every sender is dropped
RecvClosedGoesOn ==
    /\ pc \in {"select", "task"}
    /\ rx = <<>>
    /\ ~tx.open
    /\ task' = NoTask
    /\ ran' = NoRun
    /\ pc' = "select"
    /\ UNCHANGED <<files, file_events, pending_tasks, rx, tx, ui, file_list>>

\* Service::run, the select takes rx.recv() and every sender is dropped: the
\* loop ends
RecvClosed ==
    /\ pc \in {"select", "task"}
    /\ rx = <<>>
    /\ ~tx.open
    /\ task' = NoTask
    /\ ran' = NoRun
    /\ pc' = "stopped"
    /\ UNCHANGED <<files, file_events, pending_tasks, rx, tx, ui, file_list>>

\* poll_bg is polled: it takes the task at the front of the queue and
\* runs it up to the first operation on the file, which it waits for
PollBg ==
    /\ pc = "select"
    /\ pending_tasks # <<>>
    /\ task' = Head(pending_tasks)
    /\ pending_tasks' = Tail(pending_tasks)
    /\ ran' = NoRun
    /\ pc' = "task"
    /\ UNCHANGED <<files, file_events, rx, tx, ui, file_list>>

\* the task of poll_bg runs to its end, update_file!: the slot is replaced
\* by the file as checked or applied and an event Changed is pushed; the
\* select takes poll_bg, and the events are drained
TaskDone(io_ok, data, modified, backup_ok, open_ok, write_ok) ==
    /\ pc = "task"
    /\ LET index == task.index
           applied == apply(task.file, io_ok, data, modified, backup_ok, open_ok, write_ok)
           new_file == IF task.kind = "TryRewrite"
                       THEN check_rewrite(task.file, io_ok, data, modified)
                       ELSE applied.file
           branch == IF index >= Len(files) THEN "no file at index"
                     ELSE IF files[index + 1].path # task.file.path
                          THEN "index mismatch"
                          ELSE "updated"
           updated == IF branch = "updated"
                      THEN [files EXCEPT ![index + 1] = new_file]
                      ELSE files
           evts == IF branch = "updated"
                   THEN Append(file_events, Event("Changed", index, <<new_file>>))
                   ELSE file_events
       IN  /\ files' = updated
           /\ ui' = ui \o Drained(evts, updated)
           /\ ran' = [kind |-> task.kind, index |-> index, branch |-> branch,
                      eff |-> IF task.kind = "Apply" /\ branch = "updated"
                              THEN applied.eff ELSE FileState("none"),
                      wrote |-> task.kind = "Apply" /\ branch = "updated"
                                    /\ applied.wrote]
    /\ file_events' = <<>>
    /\ task' = NoTask
    /\ pc' = "select"
    /\ UNCHANGED <<pending_tasks, rx, tx, file_list>>

\* a splice that removes nothing
SpliceInsertOnly(list, position, n, new) ==
    IF position > Len(list) THEN list
    ELSE SubSeq(list, 1, position) \o new \o SubSeq(list, position + 1, Len(list))

\* ListStore::splice: n items from position are replaced by the new ones;
\* nothing changes when the list has no such items
Splice(list, position, n, new) ==
    IF position + n > Len(list) THEN list
    ELSE SubSeq(list, 1, position) \o new \o SubSeq(list, position + n + 1, Len(list))

RECURSIVE ApplyEvents(_, _)
\* Ui::handle_message on FileStateUpdate: the list after the events
ApplyEvents(list, evts) ==
    IF evts = <<>> THEN list
    ELSE LET ev == evts[1]
         IN  ApplyEvents(
                 IF ev.kind = "Added"
                 THEN Splice(list, ev.start, 0, ev.files)
                 ELSE Splice(list, ev.start, Len(ev.files), ev.files),
                 Tail(evts))

\* Ui::handle_message: the UI handles the first message it was sent; its
\* thread is the one that drops the handle and then waits for the service
HandleMessage ==
    /\ pc \in {"select", "task"}
    /\ tx.open
    /\ ui # <<>>
    /\ file_list' = ApplyEvents(file_list, ui[1].events)
    /\ ui' = Tail(ui)
    /\ UNCHANGED <<pc, files, file_events, pending_tasks, rx, tx, task, ran>>

\* Service::spawn: State::new, and the handle holds the sender
InitLoop ==
    /\ fileBytes = <<>>
    /\ pos = 0
    /\ pc = "select"
    /\ needle = BOUND_MARKER
    /\ bufLen = Len(BOUND_MARKER)
    /\ scanFrom = 0
    /\ scanRes = NoRes
    /\ caller = "user"
    /\ start = 0
    /\ span = NoSpan
    /\ packet = NoPacket
    /\ kind = "none"
    /\ events = <<>>
    /\ prepared = NoPrep
    /\ wbuf = <<>>
    /\ wres = "none"
    /\ origBytes = <<>>
    /\ NoDocument
    /\ NoService
    /\ files = <<>>
    /\ file_events = <<>>
    /\ pending_tasks = <<>>
    /\ rx = <<>>
    /\ tx = [open |-> TRUE, sent |-> 0]
    /\ task = NoTask
    /\ ui = <<>>
    /\ file_list = <<>>
    /\ ran = NoRun
    /\ NoTags

\* what is left alone by the service loop
LoopOnly ==
    UNCHANGED <<fileBytes, pos, needle, bufLen, scanFrom, scanRes, caller,
                start, span, packet, contVars, xmpVars, svcVars, tagVars>>

\* a step of Service::run
ServiceStep ==
    /\ \/ RecvOpenPaths
       \/ StartApply
       \/ RecvClosed
       \/ PollBg
       \/ \E io_ok, backup_ok, open_ok, write_ok \in BOOLEAN,
             k \in RewriteStates, m \in Mtimes :
              TaskDone(io_ok, [id |-> 0, outcome |-> k], m, backup_ok, open_ok, write_ok)
    /\ LoopOnly

NextLoop ==
    \/ ServiceStep
    \/ /\ \/ \E request \in Requests : SendRequest(request)
          \/ DropHandle
          \/ HandleMessage
       /\ LoopOnly

SpecLoop == InitLoop /\ [][NextLoop]_vars

\* the task of the service keeps being scheduled, and the operations on
\* files it waits for end
SpecLoopLive == SpecLoop /\ WF_vars(ServiceStep)

-----------------------------------------------------------------------------
(* Claims about the service loop *)

\* the indices of the files that are Ready
ReadyIndices(fs) == {i - 1 : i \in {j \in 1..Len(fs) : fs[j].state.tag = "Ready"}}

\* the step turns the state of the file at slot i into Complete
BecomesComplete(i) ==
    /\ files'[i].state.tag = "Complete"
    /\ i > Len(files) \/ files[i].state.tag # "Complete"

\* the step ends an Apply task that found a state other than Ready
AppliedNotReady ==
    /\ ran'.kind = "Apply"
    /\ ran'.branch = "updated"
    /\ ran'.eff.tag \notin {"Ready", "none"}

\* the step is start_apply: the request to apply is received
IsStartApply == rx # <<>> /\ rx[1].kind = "Apply" /\ rx' = Tail(rx)

\* the tasks a step pushes to the queue, for a step that takes none from it
Pushed == SubSeq(pending_tasks', Len(pending_tasks) + 1, Len(pending_tasks'))

\* C33: a state becomes Complete only at the end of an Apply task for that
\* slot that found (stored or reread) the state Ready and whose write ended
\* well; start_apply queues one Apply task for each file that is Ready then,
\* and for no other; an Apply task writes only when the state it found is
\* Ready, and a state other than Ready that it found is the state it stores
C33_FileStateLifecycle ==
    [][/\ \A i \in 1..Len(files') :
              BecomesComplete(i) =>
                  /\ pc = "task" /\ task.kind = "Apply" /\ task.index = i - 1
                  /\ ran'.kind = "Apply" /\ ran'.index = i - 1
                  /\ ran'.eff.tag = "Ready"
                  /\ ran'.wrote
       /\ IsStartApply =>
              /\ Len(pending_tasks') >= Len(pending_tasks)
              /\ SubSeq(pending_tasks', 1, Len(pending_tasks)) = pending_tasks
              /\ Len(Pushed) = Cardinality(ReadyIndices(files))
              /\ {Pushed[k].index : k \in 1..Len(Pushed)} = ReadyIndices(files)
              /\ \A k \in 1..Len(Pushed) :
                     /\ Pushed[k].kind = "Apply"
                     /\ Pushed[k].file = files[Pushed[k].index + 1]
       /\ ran'.wrote => ran'.eff.tag = "Ready"
       /\ AppliedNotReady =>
              /\ files'[ran'.index + 1].state = ran'.eff
              /\ files'[ran'.index + 1].state.tag # "Complete"
      ]_vars

\* an Apply task found the state NoAcdData when it read the file again,
\* stored it and wrote nothing, after another one completed its file
C33_Witness ==
    /\ ran.kind = "Apply"
    /\ ran.eff.tag = "NoAcdData"
    /\ ~ran.wrote
    /\ files[ran.index + 1].state.tag = "NoAcdData"
    /\ \E i \in 1..Len(files) : files[i].state.tag = "Complete"

\* the tasks of the queue and the one poll_bg is running
TasksAlive ==
    {pending_tasks[k] : k \in 1..Len(pending_tasks)}
        \cup (IF task.kind = "none" THEN {} ELSE {task})

\* C34: no background task is lost while the service runs: a file that is
\* still in the state Init has its TryRewrite task in the queue or in
\* progress, also after a request arrived while a task was in progress
C34_NoTaskLost ==
    pc # "stopped" =>
        \A i \in 1..Len(files) :
            files[i].state.tag = "Init" =>
                \E t \in TasksAlive : t.kind = "TryRewrite" /\ t.index = i - 1

\* q is the first part of r
IsPrefix(q, r) == Len(q) <= Len(r) /\ SubSeq(r, 1, Len(q)) = q

\* C35: every task of the queue, and the one in progress, names a slot of
\* files that holds a file of the same path; files are only appended and
\* keep their paths; tasks are pushed at the back of the queue and taken
\* from its front; a task that ends has updated its slot: the branches
\* 'index mismatch' and 'no file at index' are never taken
C35_TaskIndexValid ==
    [][/\ \A t \in TasksAlive' :
              /\ t.index < Len(files')
              /\ files'[t.index + 1].path = t.file.path
       /\ Len(files') >= Len(files)
       /\ \A i \in 1..Len(files) : files'[i].path = files[i].path
       /\ \/ IsPrefix(pending_tasks, pending_tasks')
          \/ /\ pending_tasks # <<>>
             /\ pending_tasks' = Tail(pending_tasks)
             /\ task' = Head(pending_tasks)
       /\ ran'.branch \in {"none", "updated"}
       /\ pc = "task" /\ ran'.kind # "none" =>
              /\ ran'.kind = task.kind /\ ran'.index = task.index
              /\ files'[task.index + 1].path = task.file.path
      ]_vars

\* the task of the second slot ended and updated it while a task pushed
\* after it waits in the queue
C35_Witness ==
    /\ ran.branch = "updated"
    /\ ran.index = 1
    /\ pending_tasks # <<>>
    /\ Len(files) = 2

\* the messages the UI handled left its list equal to the files vector
\* the service had when it sent the last of them
Mirrors(list, msgs) ==
    \/ msgs = <<>>
    \/ ApplyEvents(list, msgs[1].events) = msgs[1].snap

RECURSIVE StartsFit(_, _)
\* every Added event of evts starts at the length the list has when it is
\* applied, every Changed event replaces entries the list has
StartsFit(list, evts) ==
    IF evts = <<>> THEN TRUE
    ELSE LET ev == evts[1]
         IN  /\ IF ev.kind = "Added"
                THEN ev.start = Len(list)
                ELSE ev.start + Len(ev.files) <= Len(list)
             /\ StartsFit(ApplyEvents(list, <<ev>>), Tail(evts))

\* C36: the list of the UI is the files vector of the service as of the
\* last batch of events the UI handled: the batch it handles next makes it
\* the files vector as of that batch; every Added event starts at the
\* length of the list, every Changed event replaces entries that an Added
\* event put there; with no batch under way the list is the files vector
C36_UiListMirrorsFiles ==
    /\ Mirrors(file_list, ui)
    /\ ui # <<>> => StartsFit(file_list, ui[1].events)
    /\ ui = <<>> => file_list = files
    /\ \A k \in 1..Len(ui) : ui[k].events # <<>>
    /\ ui # <<>> => ui[Len(ui)].snap = files

\* the UI handled the batch that adds two files and the one that changes
\* the first of them; the change of the second is still to be handled
C36_Witness ==
    /\ Len(file_list) = 2
    /\ file_list[1].state.tag # "Init"
    /\ file_list[2].state.tag = "Init"
    /\ ui # <<>>
    /\ ui[1].events[1].kind = "Changed"
    /\ ui[1].events[1].start = 1

\* C38: once the handle has dropped the sender, the service loop receives
\* the requests still in the channel, then observes the closed channel and
\* stops, whether or not tasks are still in the queue or in progress
C38_ShutdownTerminates == (~tx.open) ~> (pc = "stopped")

\* the loop stopped with a task still in the queue
C38_Witness ==
    /\ pc = "stopped"
    /\ ~tx.open
    /\ pending_tasks # <<>>

-----------------------------------------------------------------------------
(* Claims about the backup of an apply *)

\* the step is the backup step of an apply that found the state Ready
IsBackupStep == pc = "decide" /\ pc' # "decide" /\ ap.state.tag = "Ready"

\* the step is a Container::write of an apply
IsWriteStep == pc = "write" /\ wrote' # wrote

\* C37: an apply writes the file only after its backup step ended well: in
\* the modes BackupKeep and BackupOverwrite the backup file then is a copy
\* this apply made; the backup step of an apply in the mode BackupKeep that
\* finds a backup file ends the apply in BackupError and leaves the backup
\* file and the file as they are; an apply in the mode NoBackups creates
\* no backup file and changes none
C37_BackupBeforeWrite ==
    [][/\ IsWriteStep /\ ap.backup_mode # "NoBackups" =>
              /\ backupFile.exists
              /\ backupFile.data # None
              /\ backupFile.data <= disk.data.id
       /\ disk' # disk /\ pc' = pc =>
              wrote' = wrote /\ backupFile' = backupFile
       /\ disk' # disk /\ pc' # pc => IsWriteStep
       /\ IsBackupStep /\ ap.backup_mode = "BackupKeep" /\ backupFile.exists =>
              /\ state' = FileState("BackupError")
              /\ pc' = "svc"
              /\ backupFile' = backupFile
              /\ disk' = disk
              /\ wrote' = wrote
       /\ ap.backup_mode = "NoBackups" => backupFile' = backupFile
       /\ backupFile' # backupFile =>
              /\ IsBackupStep
              /\ ap.backup_mode \in {"BackupKeep", "BackupOverwrite"}
              /\ backupFile' = BackupOf(disk.data.id)
      ]_vars

\* an apply copied the file to the backup file and then wrote the file
C37_Witness ==
    /\ pc = "svc"
    /\ state.tag = "Complete"
    /\ backupFile = BackupOf(0)
    /\ disk.data.id = 1
    /\ wrote # NoWrite

-----------------------------------------------------------------------------
(* lib.rs: TagHierarchy::from_acdsee *)

\* name.local_name == "Category"
IsCategory(name) == name.local = "Category"

\* the attribute Assigned of a start event is there and its value is "1"
Assigned(attributes) ==
    LET hits == {a \in 1..Len(attributes) : attributes[a].name.local = "Assigned"}
    IN  IF hits = {} THEN FALSE ELSE attributes[SetMin(hits)].value = "1"

\* an end of a category that inserts its path whether assigned or not
InsertTagAlways(stack, set) ==
    set \cup {[k \in 1..Len(stack) |-> stack[k].name]}

\* the end of a category: the names of the stack are inserted as a Tag if
\* the category at its top is assigned
InsertTag(stack, set) ==
    IF stack[Len(stack)].assigned
    THEN set \cup {[k \in 1..Len(stack) |-> stack[k].name]}
    ELSE set

\* the value is the empty string: the default hierarchy is returned
TagEmpty ==
    /\ pc = "parsing"
    /\ doc = <<StartDocument>>
    /\ pc' = "empty"
    /\ UNCHANGED <<doc, open, ruleset, out1, out2, tagVars>>

\* the reader yields a start event: a Category is pushed with no name
TagStart(name, attributes, MaxStarts) ==
    /\ ParseStart(name, attributes, MaxStarts)
    /\ tag_stack' = IF IsCategory(name)
                    THEN Append(tag_stack,
                             [name |-> "", assigned |-> Assigned(attributes)])
                    ELSE tag_stack
    /\ UNCHANGED tag_set

\* the reader yields text: it is the name of the category at the top
TagCharacters(text, MaxChars) ==
    /\ ParseCharacters(text, MaxChars)
    /\ tag_stack' = IF tag_stack # <<>>
                    THEN [tag_stack EXCEPT ![Len(tag_stack)].name = text]
                    ELSE tag_stack
    /\ UNCHANGED tag_set

\* the reader yields an end event: the category at the top is left
TagEnd ==
    /\ ParseEnd
    /\ IF IsCategory(open[1]) /\ tag_stack # <<>>
       THEN /\ tag_set' = InsertTag(tag_stack, tag_set)
            /\ tag_stack' = SubSeq(tag_stack, 1, Len(tag_stack) - 1)
       ELSE UNCHANGED tagVars

\* the reader yields the end of the document: the set is returned
TagEndDocument ==
    /\ ParseEndDocument
    /\ UNCHANGED tagVars

\* the most elements and texts of a value
MaxTagElements == 3

MaxTagTexts == 3

\* the elements of a value, the attributes of their start tags, their texts
TagElements == {QName(NoStr, "Category", NoStr), QName(NoStr, "Categories", NoStr)}

TagAttributes ==
    {<<>>} \cup {<<Attr(QName(NoStr, "Assigned", NoStr), v)>> : v \in {"0", "1"}}

TagTexts == {"A", "B"}

InitTags ==
    /\ fileBytes = <<>>
    /\ pos = 0
    /\ pc = "parsing"
    /\ needle = BOUND_MARKER
    /\ bufLen = Len(BOUND_MARKER)
    /\ scanFrom = 0
    /\ scanRes = NoRes
    /\ caller = "user"
    /\ start = 0
    /\ span = NoSpan
    /\ packet = NoPacket
    /\ kind = "none"
    /\ events = <<>>
    /\ prepared = NoPrep
    /\ wbuf = <<>>
    /\ wres = "none"
    /\ origBytes = <<>>
    /\ doc = <<StartDocument>>
    /\ open = <<>>
    /\ ruleset = <<>>
    /\ out1 = NoOutput
    /\ out2 = NoOutput
    /\ NoService
    /\ NoLoop
    /\ tag_stack = <<>>
    /\ tag_set = {}

NextTags ==
    /\ \/ TagEmpty
       \/ \E name \in TagElements, attributes \in TagAttributes :
              TagStart(name, attributes, MaxTagElements)
       \/ \E text \in TagTexts : TagCharacters(text, MaxTagTexts)
       \/ TagEnd
       \/ TagEndDocument
    /\ UNCHANGED <<fileBytes, pos, needle, bufLen, scanFrom, scanRes, caller,
                   start, span, packet, contVars, svcVars, loopVars>>

SpecTags == InitTags /\ [][NextTags]_vars

-----------------------------------------------------------------------------
(* Claims about the category hierarchy *)

\* the start events of the Category elements of evts
CategoryStarts(evts) ==
    {i \in 1..Len(evts) : IsStart(evts[i]) /\ IsCategory(evts[i].name)}

\* the element that starts at j encloses the event at i
Encloses(evts, j, i) == j < i /\ SubtreeEnd(evts, j, 1) > i

\* the name of the category that starts at j: the text that follows its
\* start tag, the empty string when none does
CategoryName(evts, j) ==
    IF j < Len(evts) /\ evts[j + 1].type = "Characters" THEN evts[j + 1].text ELSE ""

RECURSIVE NamesFrom(_, _, _)
\* the names of the categories that start at j or after and enclose the
\* event at i, outermost first
NamesFrom(evts, j, i) ==
    IF j >= i THEN <<>>
    ELSE (IF j \in CategoryStarts(evts) /\ Encloses(evts, j, i)
          THEN <<CategoryName(evts, j)>> ELSE <<>>)
             \o NamesFrom(evts, j + 1, i)

\* the path of the category that starts at i
CategoryPath(evts, i) == NamesFrom(evts, 1, i) \o <<CategoryName(evts, i)>>

\* every text of evts follows the start tag of a category
NameFirst(evts) ==
    \A k \in 1..Len(evts) :
        evts[k].type = "Characters" => (k - 1) \in CategoryStarts(evts)

\* the categories of evts that are marked Assigned="1"
AssignedStarts(evts) ==
    {i \in CategoryStarts(evts) : Assigned(evts[i].attributes)}

\* C39: from_acdsee returns the default hierarchy for the empty string; for
\* a value whose texts are the names of its categories, each after the
\* start tag of its category, it returns exactly the paths of the
\* categories marked Assigned="1", each path the names of the enclosing
\* categories, outermost first, and then its own; equal paths are one
\* path; the stack is empty at the end of any value
C39_CategoryPathsDecoded ==
    /\ pc = "empty" => tag_set = {}
    /\ pc = "parsed" =>
           /\ tag_stack = <<>>
           /\ NameFirst(doc) =>
                  tag_set = {CategoryPath(doc, i) : i \in AssignedStarts(doc)}

\* a value with an assigned category A that holds two assigned categories
\* B: the hierarchy holds the two paths A and A, B
C39_Witness ==
    /\ pc = "parsed"
    /\ NameFirst(doc)
    /\ Cardinality(AssignedStarts(doc)) = 3
    /\ tag_set = {<<"A">>, <<"A", "B">>}

=========================================================================
